---- MODULE Spec2Model ----
(***************************************************************************)
(* Model of pyMLChurn's refresh gate (src/pymlchurn/sp_runner.py) and of   *)
(* the stored-procedure executor it calls (src/pymlchurn/db.py), of the    *)
(* date normalisation, deduplication and business rule of main             *)
(* (src/pymlchurn/cli.py) and of train_and_predict (src/pymlchurn/ml.py).  *)
(* Each part has its own specification (Spec for the gate used by one     *)
(* process, SpecShared for two processes on one state file, SpecDedup,     *)
(* SpecRule, SpecTrain, SpecActual, SpecMain, and one for each helper      *)
(* function that is checked by itself); a specification leaves the         *)
(* variables of the other parts at Idle.                                   *)
(*                                                                         *)
(* Time is counted in whole hours (SPRunPolicy.ttl_hours is an int number  *)
(* of hours).  Strings that the code manipulates character by character    *)
(* (server, database, schema, procedure name, gate key) are sequences of   *)
(* one-character strings.                                                  *)
(***************************************************************************)
EXTENDS Integers, Sequences, FiniteSets, TLC

VARIABLES
    file,     \* contents of .state/sp_runs.json (STATE_FILE)
    clock,    \* the UTC wall clock read by _now_utc(), in hours
    last,     \* observation of the maybe_run_sp call the caller is looking at
    lastRun,  \* history: the latest run a call recorded (target, time)
    calls,    \* the calls of maybe_run_sp and mark_ran in progress, by process
    dd,       \* main's date normalisation, --as-of filter and deduplication
    br,       \* main's business rule, applied to the records of two runs
    tp,       \* one call of train_and_predict
    fn,       \* one call of a helper function: its arguments and its result
    mn        \* one run of main: its arguments, position and events

vars == <<file, clock, last, lastRun, calls, dd, br, tp, fn, mn>>

\* the variables of the gate, and those of the scoring pipeline
gateVars == <<file, clock, last, lastRun, calls>>
scoreVars == <<dd, br, tp, fn, mn>>

\* value of a variable in the specifications that do not use it
Idle == [pc |-> "idle"]

----------------------------------------------------------------------------
(* Bounds of the model *)

MaxTime == 3      \* the clock runs over 0..MaxTime
MaxDur == 1       \* hours an execution of the stored procedure may take
MaxTtl == 2       \* explicit ttl_hours values are 0..MaxTtl

(* Program constants *)

DefaultTtlHours == 24    \* SPRunPolicy.ttl_hours
Retries == 5             \* execute_stored_procedure(retries=5)
Backoff == 2             \* execute_stored_procedure(backoff=2.0)

----------------------------------------------------------------------------
(* Strings as sequences of characters; str.lower() and "|".join           *)
(*                                                                         *)
(* A character is a one-character string; a character outside ASCII is     *)
(* written as the token "<U+XXXX>" of its code point.  The characters of   *)
(* the model are those of Basic Latin and Latin-1 Supplement, U+0130       *)
(* (capital I with dot above) with the combining dot U+0307 of its lower   *)
(* case, and the Greek sigmas U+03A3, U+03C3, U+03C2.  The grave accent is *)
(* written "<U+0060>".                                                     *)

\* the upper-case letters whose lower case is one character, whatever
\* stands around them: A-Z and U+00C0-U+00DE (without the sign U+00D7)
UpperLetters ==
    <<"A","B","C","D","E","F","G","H","I","J","K","L","M",
      "N","O","P","Q","R","S","T","U","V","W","X","Y","Z",
      "<U+00C0>","<U+00C1>","<U+00C2>","<U+00C3>","<U+00C4>","<U+00C5>",
      "<U+00C6>","<U+00C7>","<U+00C8>","<U+00C9>","<U+00CA>","<U+00CB>",
      "<U+00CC>","<U+00CD>","<U+00CE>","<U+00CF>","<U+00D0>","<U+00D1>",
      "<U+00D2>","<U+00D3>","<U+00D4>","<U+00D5>","<U+00D6>","<U+00D8>",
      "<U+00D9>","<U+00DA>","<U+00DB>","<U+00DC>","<U+00DD>","<U+00DE>">>

LowerLetters ==
    <<"a","b","c","d","e","f","g","h","i","j","k","l","m",
      "n","o","p","q","r","s","t","u","v","w","x","y","z",
      "<U+00E0>","<U+00E1>","<U+00E2>","<U+00E3>","<U+00E4>","<U+00E5>",
      "<U+00E6>","<U+00E7>","<U+00E8>","<U+00E9>","<U+00EA>","<U+00EB>",
      "<U+00EC>","<U+00ED>","<U+00EE>","<U+00EF>","<U+00F0>","<U+00F1>",
      "<U+00F2>","<U+00F3>","<U+00F4>","<U+00F5>","<U+00F6>","<U+00F8>",
      "<U+00F9>","<U+00FA>","<U+00FB>","<U+00FC>","<U+00FD>","<U+00FE>">>

\* the lower-case letter of every upper-case letter
LowerOf ==
    [c \in { UpperLetters[i] : i \in DOMAIN UpperLetters } |->
        LowerLetters[CHOOSE i \in DOMAIN UpperLetters : UpperLetters[i] = c]]

CapitalIDot == "<U+0130>"
CombiningDot == "<U+0307>"
CapitalSigma == "<U+03A3>"
SmallSigma == "<U+03C3>"
FinalSmallSigma == "<U+03C2>"

\* the cased characters that are not case-ignorable
CasedChars ==
    { UpperLetters[i] : i \in DOMAIN UpperLetters }
    \cup { LowerLetters[i] : i \in DOMAIN LowerLetters }
    \cup {"<U+00AA>", "<U+00B5>", "<U+00BA>", "<U+00DF>", "<U+00FF>",
          CapitalIDot, CapitalSigma, SmallSigma, FinalSmallSigma}

\* the case-ignorable characters
CaseIgnorableChars ==
    {"'", ".", ":", "^", "<U+0060>", "<U+00A8>", "<U+00AD>", "<U+00AF>",
     "<U+00B4>", "<U+00B7>", "<U+00B8>", CombiningDot}

\* str.lower() of one character by itself: a string of one character, of
\* two for U+0130
LowerChar(c) ==
    IF c \in DOMAIN LowerOf THEN <<LowerOf[c]>>
    ELSE IF c = CapitalIDot THEN <<"i", CombiningDot>>
    ELSE IF c = CapitalSigma THEN <<SmallSigma>>
    ELSE <<c>>

\* the capital sigma at s[i] ends a word: the nearest character before it
\* that is not case-ignorable is cased, the nearest after it is not
FinalSigma(s, i) ==
    /\ \E j \in 1..(i - 1) :
         /\ s[j] \in CasedChars
         /\ \A k \in (j + 1)..(i - 1) : s[k] \in CaseIgnorableChars
    /\ ~\E j \in (i + 1)..Len(s) :
          /\ s[j] \in CasedChars
          /\ \A k \in (i + 1)..(j - 1) : s[k] \in CaseIgnorableChars

\* the lower case of the character at s[i]
LowerAt(s, i) ==
    IF s[i] = CapitalSigma /\ FinalSigma(s, i)
    THEN <<FinalSmallSigma>>
    ELSE LowerChar(s[i])

RECURSIVE LowerFrom(_, _)
LowerFrom(s, i) ==
    IF i > Len(s) THEN <<>> ELSE LowerAt(s, i) \o LowerFrom(s, i + 1)

\* str.lower()
Lower(s) == LowerFrom(s, 1)

RECURSIVE Join(_, _)
Join(sep, parts) ==
    IF Len(parts) = 0 THEN <<>>
    ELSE IF Len(parts) = 1 THEN parts[1]
    ELSE parts[1] \o sep \o Join(sep, Tail(parts))

\* _sp_key(cfg, sp_name, schema)
SpKey(cfg, sp_name, schema) ==
    Join(<<"|">>, <<Lower(cfg.server), Lower(cfg.database),
                    Lower(schema), Lower(sp_name)>>)

----------------------------------------------------------------------------
(* Optional values (Python None) *)

Some(x) == [some |-> TRUE, v |-> x]

\* an absent datetime
NoTime == [some |-> FALSE, v |-> 0]

(* JSON values stored under a key of the state file.                       *)
(*   aware  : ISO-8601 text with a UTC offset, instant t                   *)
(*   naive  : ISO-8601 text without an offset                              *)
(*   badstr : a non-empty string that is not ISO-8601                      *)
(*   falsy  : null, "", 0, [], {} ...                                      *)
(*   nonstr : a truthy value that is not a string (number, list, ...)      *)

Aware(t) == [tag |-> "aware", t |-> t]
Naive(t) == [tag |-> "naive", t |-> t]
BadStr == [tag |-> "badstr", t |-> 0]
Falsy == [tag |-> "falsy", t |-> 0]
NonStr == [tag |-> "nonstr", t |-> 0]

\* datetime.isoformat() of a timezone-aware UTC datetime
Isoformat(t) == Aware(t)

\* datetime.fromisoformat(iso): the parsed datetime or the exception raised
FromIsoformat(iso) ==
    CASE iso.tag = "aware" -> [error |-> "none", aware |-> TRUE, t |-> iso.t]
      [] iso.tag = "naive" -> [error |-> "none", aware |-> FALSE, t |-> iso.t]
      [] iso.tag = "badstr" -> [error |-> "ValueError", aware |-> FALSE, t |-> 0]
      [] OTHER -> [error |-> "TypeError", aware |-> FALSE, t |-> 0]

(* Contents of the state file.                                             *)
(*   absent  : the file does not exist                                     *)
(*   empty   : the file exists and has no content, as it is between the    *)
(*             truncation and the write of _save_state                     *)
(*   garbage : other text that json.loads rejects                          *)
(*   list    : a JSON array                                                *)
(*   scalar  : a JSON null, number, string or boolean                      *)
(*   dict    : a JSON object, map gives its members                        *)

EmptyMap == [k \in {} |-> Falsy]

FileOf(kind) == [kind |-> kind, map |-> EmptyMap]
Dict(m) == [kind |-> "dict", map |-> m]

Put(m, k, x) == [j \in (DOMAIN m) \cup {k} |-> IF j = k THEN x ELSE m[j]]

\* an absent JSON value
NoValue == [some |-> FALSE, v |-> Falsy]

\* dict.get(key)
Get(m, k) == IF k \in DOMAIN m THEN Some(m[k]) ELSE NoValue

\* _load_state(): what json.loads returned, {} when missing or unparseable
LoadState(f) ==
    IF f.kind = "absent" THEN Dict(EmptyMap)
    ELSE IF f.kind \in {"empty", "garbage"} THEN Dict(EmptyMap)
    ELSE f

\* _save_state(state): the text json.dumps gives, which write_text is to
\* write; the file of that text
SaveState(state) == state

\* the keys recorded in file f
RecordedKeys(f) == IF f.kind = "dict" THEN DOMAIN f.map ELSE {}

\* STATE_FILE.write_text(text) holds no lock and renames nothing: it opens
\* the file for writing, which leaves it empty, and then writes the text
\* at its start
Truncated == FileOf("empty")

\* the file after the text of new is written at the start of file cur.  If
\* another process has written since the truncation, cur is its text: a
\* longer text keeps its tail behind the text of new, which json.loads
\* rejects.  The text of a mapping with more keys is longer; the length of
\* a timestamp varies (isoformat leaves out microseconds that are 0), so
\* that texts of the same keys may be longer or shorter
Written(cur, new) ==
    IF cur.kind = "empty" THEN {new}
    ELSE IF cur.kind = "dict" /\ RecordedKeys(cur) # RecordedKeys(new)
              /\ RecordedKeys(cur) \subseteq RecordedKeys(new) THEN {new}
    ELSE IF cur.kind = "dict" /\ RecordedKeys(cur) # RecordedKeys(new)
              /\ RecordedKeys(new) \subseteq RecordedKeys(cur)
    THEN {FileOf("garbage")}
    ELSE {new, FileOf("garbage")}

----------------------------------------------------------------------------
(* SPRunPolicy *)

Policy(h) == [ttl_hours |-> h]

\* SPRunPolicy.ttl()
Ttl(policy) == policy.ttl_hours

\* policy = policy or SPRunPolicy()
PolicyOrDefault(policy) ==
    IF policy.some THEN policy.v ELSE Policy(DefaultTtlHours)

----------------------------------------------------------------------------
(* should_run: (doit, last) or the exception that escapes it *)

\* faulty should_run: due = last (the ttl is not added)
ShouldRun_IgnoresTtl(f, key, policy, now) ==
    LET state == LoadState(f) IN
    IF state.kind # "dict"
    THEN [error |-> "AttributeError", doit |-> FALSE, last |-> NoTime]
    ELSE
      LET iso == Get(state.map, key) IN
      IF ~iso.some \/ iso.v.tag = "falsy"
      THEN [error |-> "none", doit |-> TRUE, last |-> NoTime]
      ELSE
        LET parsed == FromIsoformat(iso.v) IN
        IF parsed.error # "none"
        THEN [error |-> "none", doit |-> TRUE, last |-> NoTime]
        ELSE IF ~parsed.aware
        THEN [error |-> "TypeError", doit |-> FALSE, last |-> NoTime]
        ELSE [error |-> "none", doit |-> now >= parsed.t, last |-> Some(parsed.t)]

\* faulty should_run: _now_utc() > due
ShouldRun_StrictlyAfter(f, key, policy, now) ==
    LET state == LoadState(f) IN
    IF state.kind # "dict"
    THEN [error |-> "AttributeError", doit |-> FALSE, last |-> NoTime]
    ELSE
      LET iso == Get(state.map, key) IN
      IF ~iso.some \/ iso.v.tag = "falsy"
      THEN [error |-> "none", doit |-> TRUE, last |-> NoTime]
      ELSE
        LET parsed == FromIsoformat(iso.v) IN
        IF parsed.error # "none"
        THEN [error |-> "none", doit |-> TRUE, last |-> NoTime]
        ELSE IF ~parsed.aware
        THEN [error |-> "TypeError", doit |-> FALSE, last |-> NoTime]
        ELSE
          LET due == parsed.t + Ttl(policy) IN
          [error |-> "none", doit |-> now > due, last |-> Some(parsed.t)]

\* faulty should_run: _now_utc() <= due
ShouldRun_Inverted(f, key, policy, now) ==
    LET state == LoadState(f) IN
    IF state.kind # "dict"
    THEN [error |-> "AttributeError", doit |-> FALSE, last |-> NoTime]
    ELSE
      LET iso == Get(state.map, key) IN
      IF ~iso.some \/ iso.v.tag = "falsy"
      THEN [error |-> "none", doit |-> TRUE, last |-> NoTime]
      ELSE
        LET parsed == FromIsoformat(iso.v) IN
        IF parsed.error # "none"
        THEN [error |-> "none", doit |-> TRUE, last |-> NoTime]
        ELSE IF ~parsed.aware
        THEN [error |-> "TypeError", doit |-> FALSE, last |-> NoTime]
        ELSE
          LET due == parsed.t + Ttl(policy) IN
          [error |-> "none", doit |-> now <= due, last |-> Some(parsed.t)]

ShouldRun(f, key, policy, now) ==
    LET state == LoadState(f) IN
    IF state.kind # "dict"
    THEN [error |-> "AttributeError", doit |-> FALSE, last |-> NoTime]
    ELSE
      LET iso == Get(state.map, key) IN
      IF ~iso.some \/ iso.v.tag = "falsy"
      THEN [error |-> "none", doit |-> TRUE, last |-> NoTime]
      ELSE
        LET parsed == FromIsoformat(iso.v) IN
        IF parsed.error # "none"
        THEN [error |-> "none", doit |-> TRUE, last |-> NoTime]
        ELSE IF ~parsed.aware
        THEN [error |-> "TypeError", doit |-> FALSE, last |-> NoTime]
        ELSE
          LET due == parsed.t + Ttl(policy) IN
          [error |-> "none", doit |-> now >= due, last |-> Some(parsed.t)]

\* faulty mark_ran: writes only the key just run instead of the whole mapping
MarkRan_WritesOnlyKey(f, key, now) ==
    LET state == LoadState(f) IN
    IF state.kind # "dict"
    THEN [error |-> "TypeError", file |-> f]
    ELSE [error |-> "none",
          file |-> SaveState(Dict(Put(EmptyMap, key, Isoformat(now))))]

\* mark_ran: the file afterwards, or the exception that escapes it
MarkRan(f, key, now) ==
    LET state == LoadState(f) IN
    IF state.kind # "dict"
    THEN [error |-> "TypeError", file |-> f]
    ELSE [error |-> "none",
          file |-> SaveState(Dict(Put(state.map, key, Isoformat(now))))]

----------------------------------------------------------------------------
(* execute_stored_procedure: outs[k] is what the k-th attempt does:        *)
(*   "ok"    the procedure call returns                                    *)
(*   "dberr" pyodbc.Error or SQLAlchemyError is raised                     *)
(*   "other" any other exception is raised                                 *)
(* The result gives how the call ended, the attempts made and the seconds  *)
(* slept between attempts.                                                 *)

RECURSIVE Pow2(_)
Pow2(n) == IF n <= 0 THEN 1 ELSE 2 * Pow2(n - 1)

RECURSIVE ExecAttempt(_, _, _, _, _)
ExecAttempt(outs, attempt, retries, backoff, slept) ==
    IF attempt > retries
    THEN [status |-> "raise_none", attempts |-> attempt - 1, slept |-> slept]
    ELSE IF outs[attempt] = "ok"
    THEN [status |-> "ok", attempts |-> attempt, slept |-> slept]
    ELSE IF outs[attempt] = "dberr"
    THEN IF attempt >= retries
         THEN [status |-> "dberr", attempts |-> attempt, slept |-> slept]
         ELSE ExecAttempt(outs, attempt + 1, retries, backoff,
                          slept + backoff * Pow2(attempt - 1))
    ELSE [status |-> "other", attempts |-> attempt, slept |-> slept]

ExecuteStoredProcedure(outs, retries, backoff) ==
    ExecAttempt(outs, 1, retries, backoff, 0)

----------------------------------------------------------------------------
(* maybe_run_sp.  now is the clock at the call, dur the hours the executor *)
(* takes when it is invoked.  The outcome is "returned" with the result    *)
(* dict, or "raised" with the exception that escapes.                      *)

Result(ran, kind, lst) == [ran |-> ran, reason |-> [kind |-> kind, last |-> lst]]

NoResult == Result(FALSE, "none", NoTime)

Returned(f, now, executed, exec, res) ==
    [file |-> f, clock |-> now, executed |-> executed, exec |-> exec,
     outcome |-> "returned", error |-> "none", result |-> res]

Raised(f, now, executed, exec, err) ==
    [file |-> f, clock |-> now, executed |-> executed, exec |-> exec,
     outcome |-> "raised", error |-> err, result |-> NoResult]

\* faulty maybe_run_sp: mark_ran is called before the executor
RunAndMark_MarksFirst(f, now, key, outs, dur, kind) ==
    LET ex == ExecuteStoredProcedure(outs, Retries, Backoff)
        mr == MarkRan(f, key, now)
    IN
    IF mr.error # "none"
    THEN Raised(f, now, FALSE, "none", mr.error)
    ELSE IF ex.status # "ok"
    THEN Raised(mr.file, now + dur, TRUE, ex.status, ex.status)
    ELSE Returned(mr.file, now + dur, TRUE, "ok", Result(TRUE, kind, NoTime))

\* faulty maybe_run_sp: an executor failure is caught and returned as a dict
RunAndMark_ReturnsFailure(f, now, key, outs, dur, kind) ==
    LET ex == ExecuteStoredProcedure(outs, Retries, Backoff) IN
    IF ex.status # "ok"
    THEN Returned(f, now + dur, TRUE, ex.status, Result(FALSE, "failed", NoTime))
    ELSE
      LET mr == MarkRan(f, key, now + dur) IN
      IF mr.error # "none"
      THEN Raised(f, now + dur, TRUE, "ok", mr.error)
      ELSE Returned(mr.file, now + dur, TRUE, "ok", Result(TRUE, kind, NoTime))

\* lines 76-78 and 82-84: execute, mark_ran, return
RunAndMark(f, now, key, outs, dur, kind) ==
    LET ex == ExecuteStoredProcedure(outs, Retries, Backoff) IN
    IF ex.status # "ok"
    THEN Raised(f, now + dur, TRUE, ex.status, ex.status)
    ELSE
      LET mr == MarkRan(f, key, now + dur) IN
      IF mr.error # "none"
      THEN Raised(f, now + dur, TRUE, "ok", mr.error)
      ELSE Returned(mr.file, now + dur, TRUE, "ok", Result(TRUE, kind, NoTime))

\* what a call of maybe_run_sp has not done yet
Pending(f, now) ==
    [file |-> f, clock |-> now, executed |-> FALSE, exec |-> "none",
     outcome |-> "none", error |-> "none", result |-> NoResult]

\* lines 74-81: the policy, then force or should_run.  go says that the
\* executor is to be invoked and kind why; otherwise r is how the call ends
Decision(f, now, cfg, sp_name, schema, force, policy) ==
    LET pol == PolicyOrDefault(policy)
        key == SpKey(cfg, sp_name, schema)
    IN
    IF force
    THEN [go |-> TRUE, kind |-> "forced", r |-> Pending(f, now)]
    ELSE
      LET sr == ShouldRun(f, key, pol, now) IN
      IF sr.error # "none"
      THEN [go |-> FALSE, kind |-> "none",
            r |-> Raised(f, now, FALSE, "none", sr.error)]
      ELSE IF ~sr.doit
      THEN [go |-> FALSE, kind |-> "none",
            r |-> Returned(f, now, FALSE, "none",
                           Result(FALSE, "recent", sr.last))]
      ELSE [go |-> TRUE, kind |-> "ttl_expired", r |-> Pending(f, now)]

----------------------------------------------------------------------------
(* Inputs *)

Str1(a) == <<a>>
Str3(a, b, c) == <<a, b, c>>

Target(server, database, schema, sp_name) ==
    [cfg |-> [server |-> server, database |-> database],
     schema |-> schema, sp_name |-> sp_name]

\* a base target (its database has a "|" inside, its procedure name ends in
\* U+00E9 and a small sigma), the same target with all letters but the sigma
\* in upper case, the same with all letters in upper case, and another
\* target, whose server has the "|" inside
Targets ==
    { Target(Str1("s"), Str3("d", "|", "d"), Str1("x"),
             Str3("p", "<U+00E9>", SmallSigma)),
      Target(Str1("S"), Str3("D", "|", "D"), Str1("X"),
             Str3("P", "<U+00C9>", SmallSigma)),
      Target(Str1("S"), Str3("D", "|", "D"), Str1("X"),
             Str3("P", "<U+00C9>", CapitalSigma)),
      Target(Str3("s", "|", "d"), Str1("d"), Str1("x"),
             Str3("p", "<U+00E9>", SmallSigma)) }

KeyOf(tg) == SpKey(tg.cfg, tg.sp_name, tg.schema)

Keys == { KeyOf(tg) : tg \in Targets }

\* policy argument: None or SPRunPolicy(ttl_hours=h)
Policies == { [some |-> FALSE, v |-> Policy(0)] } \cup { Some(Policy(h)) : h \in 0..MaxTtl }

\* per-attempt behaviours of the executor: f failed attempts, then term
ExecScenarios(n) ==
    { [i \in 1..n |-> IF i <= f THEN "dberr" ELSE term] :
        f \in {0, 1, n}, term \in {"ok", "other"} }

\* values a pre-existing state file may hold under a key
InitValues == { Aware(0), Aware(1), Naive(0), BadStr, Falsy, NonStr }

InitFiles ==
    { FileOf("absent"), FileOf("garbage"), FileOf("list"), FileOf("scalar"),
      Dict(EmptyMap) }
    \cup { Dict(Put(EmptyMap, k, x)) : k \in Keys, x \in InitValues }

----------------------------------------------------------------------------
(* State machine *)

NoRun == [some |-> FALSE, target |-> CHOOSE tg \in Targets : TRUE, t |-> 0]

\* a call in progress: where it is (deciding is one step; "executing" the
\* stored procedure; "saving" the state mark_ran has built, "writing" once
\* the state file is opened; "marking" and "mark_writing" likewise for a
\* direct call of mark_ran), its arguments, what it read when it began, and
\* in r what it has done so far
NoFlight ==
    [pc |-> "idle", target |-> CHOOSE tg \in Targets : TRUE,
     force |-> FALSE, ttl |-> 0, start |-> 0,
     prior |-> NoValue, prev |-> NoRun, before |-> FileOf("absent"),
     kind |-> "none", r |-> Pending(FileOf("absent"), 0)]

NoCall ==
    [called |-> FALSE, target |-> CHOOSE tg \in Targets : TRUE,
     force |-> FALSE, ttl |-> 0, start |-> 0, end |-> 0,
     prior |-> NoValue, prev |-> NoRun, seen |-> NoRun,
     before |-> FileOf("absent"),
     executed |-> FALSE, exec |-> "none",
     outcome |-> "none", error |-> "none", result |-> NoResult]

\* the processes that use the state file
Procs == {1, 2}

Init ==
    /\ file \in InitFiles
    /\ clock = 0
    /\ last = NoCall
    /\ lastRun = NoRun
    /\ calls = [p \in Procs |-> NoFlight]
    /\ dd = Idle /\ br = Idle /\ tp = Idle /\ fn = Idle /\ mn = Idle

\* the call c has returned or raised, as r says: what its caller sees
Observation(c, r) ==
    [called |-> TRUE, target |-> c.target, force |-> c.force, ttl |-> c.ttl,
     start |-> c.start, end |-> r.clock,
     prior |-> c.prior, prev |-> c.prev, seen |-> lastRun,
     before |-> c.before,
     executed |-> r.executed, exec |-> r.exec,
     outcome |-> r.outcome, error |-> r.error, result |-> r.result]

Completes(c, r) ==
    /\ last' = Observation(c, r)
    /\ lastRun' =
         IF r.outcome = "returned" /\ r.result.ran
         THEN [some |-> TRUE, target |-> c.target, t |-> r.clock]
         ELSE lastRun

\* maybe_run_sp(cfg, sp_name, schema, force, policy) is called, lines 74-81:
\* the state file is read and the call decides; it ends here when
\* should_run raises or the last run is recent
MaybeRunSpDecide(p, targets, forces, policies) ==
    \E tg \in targets, force \in forces, policy \in policies :
      /\ calls[p].pc = "idle"
      /\ ~last.called
      /\ LET d == Decision(file, clock, tg.cfg, tg.sp_name, tg.schema,
                           force, policy)
             c == [NoFlight EXCEPT
                     !.pc = "executing", !.target = tg, !.force = force,
                     !.ttl = Ttl(PolicyOrDefault(policy)), !.start = clock,
                     !.prior = Get(LoadState(file).map, KeyOf(tg)),
                     !.prev = lastRun, !.before = file, !.kind = d.kind]
         IN
         IF d.go
         THEN /\ calls' = [calls EXCEPT ![p] = c]
              /\ UNCHANGED <<last, lastRun>>
         ELSE /\ Completes(c, d.r)
              /\ UNCHANGED calls
      /\ UNCHANGED <<file, clock>>
      /\ UNCHANGED scoreVars

\* lines 76-77 and 82-83: execute_stored_procedure has taken dur hours and
\* returns or raises; when it returns, mark_ran reads the state file as it
\* is then and the clock, and builds the state to save.  No lock is held:
\* what other processes did since the decision is in the file by now
MaybeRunSpExecute(p, durs) ==
    \E outs \in ExecScenarios(Retries), dur \in durs :
      /\ calls[p].pc = "executing"
      /\ ~last.called
      /\ clock + dur <= MaxTime
      /\ LET c == calls[p]
             r == RunAndMark(file, clock, KeyOf(c.target), outs, dur, c.kind)
         IN
         /\ clock' = r.clock
         /\ IF r.outcome = "raised"
            THEN /\ file' = r.file
                 /\ Completes(c, r)
                 /\ calls' = [calls EXCEPT ![p] = NoFlight]
            ELSE /\ calls' = [calls EXCEPT ![p] = [c EXCEPT !.pc = "saving",
                                                            !.r = r]]
                 /\ UNCHANGED <<file, last, lastRun>>
      /\ UNCHANGED scoreVars

\* _save_state(state) of mark_ran, line 32: write_text opens the state
\* file, which truncates it
MaybeRunSpSave(p) ==
    /\ calls[p].pc = "saving"
    /\ ~last.called
    /\ file' = Truncated
    /\ calls' = [calls EXCEPT ![p] = [@ EXCEPT !.pc = "writing"]]
    /\ UNCHANGED <<clock, last, lastRun>>
    /\ UNCHANGED scoreVars

\* write_text writes the whole mapping that mark_ran read, with the key of
\* the call, and closes the file; then lines 78 and 84: the call returns
MaybeRunSpWritten(p) ==
    /\ calls[p].pc = "writing"
    /\ ~last.called
    /\ file' \in Written(file, calls[p].r.file)
    /\ Completes(calls[p], calls[p].r)
    /\ calls' = [calls EXCEPT ![p] = NoFlight]
    /\ UNCHANGED clock
    /\ UNCHANGED scoreVars

\* mark_ran(cfg, sp_name, schema) is called by itself (it is a public
\* function of the module), lines 67-69: the state file is read; the call
\* raises when the file holds no mapping
MarkRanLoad(p, targets) ==
    \E tg \in targets :
      /\ calls[p].pc = "idle"
      /\ LET mr == MarkRan(file, KeyOf(tg), clock) IN
         /\ mr.error = "none"
         /\ calls' = [calls EXCEPT ![p] =
                        [NoFlight EXCEPT
                           !.pc = "marking", !.target = tg,
                           !.r = Returned(mr.file, clock, FALSE, "none",
                                          NoResult)]]
      /\ UNCHANGED <<file, clock, last, lastRun>>
      /\ UNCHANGED scoreVars

\* line 70 of the direct call: _save_state(state) opens the state file,
\* which truncates it
MarkRanSave(p) ==
    /\ calls[p].pc = "marking"
    /\ file' = Truncated
    /\ calls' = [calls EXCEPT ![p] = [@ EXCEPT !.pc = "mark_writing"]]
    /\ UNCHANGED <<clock, last, lastRun>>
    /\ UNCHANGED scoreVars

\* and writes the mapping; mark_ran returns
MarkRanWritten(p) ==
    /\ calls[p].pc = "mark_writing"
    /\ file' \in Written(file, calls[p].r.file)
    /\ calls' = [calls EXCEPT ![p] = NoFlight]
    /\ UNCHANGED <<clock, last, lastRun>>
    /\ UNCHANGED scoreVars

\* the caller has used the returned dict (or seen the exception) and drops it
Forget ==
    /\ last.called
    /\ last' = NoCall
    /\ UNCHANGED <<file, clock, lastRun, calls, dd, br, tp, fn, mn>>

\* the wall clock advances between calls; during a call it advances with
\* the execution of the stored procedure
Tick ==
    /\ ~last.called
    /\ \A p \in Procs : calls[p].pc = "idle"
    /\ clock < MaxTime
    /\ clock' = clock + 1
    /\ UNCHANGED <<file, last, lastRun, calls, dd, br, tp, fn, mn>>

\* One process: maybe_run_sp is synchronous, so a call of the process
\* begins when its previous call has returned or raised, and no other
\* process uses the state file (the program is meant to run as
\* at most one process for a state file, and it calls mark_ran itself
\* only from maybe_run_sp).
Next ==
    \/ MaybeRunSpDecide(1, Targets, BOOLEAN, Policies)
    \/ MaybeRunSpExecute(1, 0..MaxDur)
    \/ MaybeRunSpSave(1)
    \/ MaybeRunSpWritten(1)
    \/ Forget
    \/ Tick

Spec == Init /\ [][Next]_vars

\* Two processes on one state file, as the code allows: their calls of
\* maybe_run_sp overlap, and either may call mark_ran directly.  The calls
\* are not forced and are for the base target or for the target in upper
\* case, which has another key, under the default policy; an execution
\* takes less than an hour, and the state file is absent at first.  A
\* process may read the state file between the truncation and the write
\* of the other, and may write where the other has written.
SharedTargets ==
    { tg \in Targets : \/ tg.cfg.server = Str1("s")
                       \/ tg.sp_name[Len(tg.sp_name)] = CapitalSigma }

SharedPolicies == { [some |-> FALSE, v |-> Policy(0)] }

InitShared == Init /\ file = FileOf("absent")

NextShared ==
    \/ \E p \in Procs :
         MaybeRunSpDecide(p, SharedTargets, {FALSE}, SharedPolicies)
    \/ \E p \in Procs : MaybeRunSpExecute(p, {0})
    \/ \E p \in Procs : MaybeRunSpSave(p)
    \/ \E p \in Procs : MaybeRunSpWritten(p)
    \/ \E p \in Procs : MarkRanLoad(p, SharedTargets)
    \/ \E p \in Procs : MarkRanSave(p)
    \/ \E p \in Procs : MarkRanWritten(p)
    \/ Forget
    \/ Tick

SpecShared == InitShared /\ [][NextShared]_vars

TypeOK ==
    /\ clock \in 0..MaxTime
    /\ file.kind \in {"absent", "empty", "garbage", "list", "scalar", "dict"}
    /\ last.outcome \in {"none", "returned", "raised"}

----------------------------------------------------------------------------
(* Vocabulary of the properties *)

\* the step is a call of maybe_run_sp
CallStep == ~last.called /\ last'.called

\* the key of the call held a timezone-aware timestamp: Known(t)
IsKnown(p) == p.some /\ p.v.tag = "aware"

\* Known(t) and now < t + ttl
Fresh(l) == IsKnown(l.prior) /\ l.start < l.prior.v.t + l.ttl

\* Known(t) and now >= t + ttl
Expired(l) == IsKnown(l.prior) /\ l.start >= l.prior.v.t + l.ttl

\* file f holds Known(now) for the key of call l, now being the clock when
\* the run was recorded
RecordedNow(f, l) ==
    /\ f.kind = "dict"
    /\ KeyOf(l.target) \in DOMAIN f.map
    /\ f.map[KeyOf(l.target)] = Aware(l.end)

\* two characters are the same letter, in either case; the capital sigma
\* is the upper case of both small sigmas
SameLetter(a, b) ==
    \/ a = b
    \/ \E i \in DOMAIN UpperLetters : {a, b} = {UpperLetters[i], LowerLetters[i]}
    \/ {a, b} \in {{CapitalSigma, SmallSigma}, {CapitalSigma, FinalSmallSigma}}

\* two strings differ at most in letter case
SameIgnoringCase(a, b) ==
    /\ Len(a) = Len(b)
    /\ \A i \in 1..Len(a) : SameLetter(a[i], b[i])

\* two targets differ at most in letter case
SameTarget(t1, t2) ==
    /\ SameIgnoringCase(t1.cfg.server, t2.cfg.server)
    /\ SameIgnoringCase(t1.cfg.database, t2.cfg.database)
    /\ SameIgnoringCase(t1.schema, t2.schema)
    /\ SameIgnoringCase(t1.sp_name, t2.sp_name)

(* What overlapping calls and direct calls of mark_ran do in SpecShared,   *)
(* where the state file is absent at first                                 *)

\* two calls that overlapped have both run the procedure for one key
\* within the ttl: the call returns ran=True less than ttl after the run
\* that was the latest recorded when it returned
RanTwiceWithinTtl ==
    /\ last.called /\ ~last.force /\ last.result.ran
    /\ last.seen.some
    /\ KeyOf(last.seen.target) = KeyOf(last.target)
    /\ last.end < last.seen.t + last.ttl

\* the record of a run is lost: the call has saved its state, and the key
\* of the run that was the latest recorded before is not in the state file
RecordLost ==
    /\ last.called /\ last.result.ran
    /\ last.seen.some
    /\ KeyOf(last.seen.target) \notin RecordedKeys(file)

\* a call has run the procedure and saved its state, and the state file
\* holds text that json.loads rejects
SpoiltByRun ==
    /\ last.called /\ last.result.ran
    /\ file.kind = "garbage"

\* a key is recorded although no call has run the procedure
MarkedWithoutRun ==
    /\ ~lastRun.some
    /\ \A p \in Procs : calls[p].pc = "idle"
    /\ RecordedKeys(file) # {}

----------------------------------------------------------------------------
(* C1: a non-forced call on a key Known(t) with now < t + ttl does not     *)
(* invoke the executor, returns ran=False with the reason "recent (last    *)
(* run t)", and leaves the state file exactly as it was.                   *)
C1_FreshSkipKeepsState ==
    [][ (CallStep /\ ~last'.force /\ Fresh(last')) =>
          /\ ~last'.executed
          /\ last'.outcome = "returned"
          /\ last'.result = Result(FALSE, "recent", Some(last'.prior.v.t))
          /\ file' = last'.before ]_vars

C1_Witness ==
    /\ last.called /\ ~last.force /\ Fresh(last)
    /\ ~last.executed /\ ~last.result.ran
    /\ last.result.reason.kind = "recent"

(* C2: a non-forced call on a key with no recorded run invokes the         *)
(* executor and, when the executor succeeds, records Known(now) for the    *)
(* key and returns ran=True.                                               *)
C2_UnknownRuns ==
    (last.called /\ ~last.force /\ ~last.prior.some) =>
      /\ last.executed
      /\ last.exec = "ok" =>
           /\ last.outcome = "returned"
           /\ last.result.ran
           /\ RecordedNow(file, last)

(* C3: a non-forced call on a key Known(t) with now >= t + ttl, the        *)
(* boundary now = t + ttl included, invokes the executor and, the executor *)
(* succeeding, moves the key to Known(now) and returns ran=True with       *)
(* reason ttl_expired.                                                     *)
C3_ExpiredRuns ==
    (last.called /\ ~last.force /\ Expired(last)) =>
      /\ last.executed
      /\ last.exec = "ok" =>
           /\ last.outcome = "returned"
           /\ last.result = Result(TRUE, "ttl_expired", NoTime)
           /\ RecordedNow(file, last)

C3_Witness ==
    /\ last.called /\ ~last.force /\ IsKnown(last.prior)
    /\ last.start = last.prior.v.t + last.ttl
    /\ last.executed /\ last.exec = "ok" /\ last.result.ran
    /\ last.end > last.start
    /\ RecordedNow(file, last)

(* C4: a forced call invokes the executor and records Known(now) for the   *)
(* key whatever the prior state of the key (Unknown, Known and fresh,      *)
(* Known and expired), without consulting the ttl.                         *)
C4_ForceAlwaysRuns ==
    (last.called /\ last.force) =>
      /\ last.executed
      /\ last.exec = "ok" =>
           /\ last.outcome = "returned"
           /\ last.result = Result(TRUE, "forced", NoTime)
           /\ RecordedNow(file, last)

(* C5: when the executor fails, forced or not, the call records nothing:   *)
(* the state file is exactly what it was before the call.                  *)
C5_FailureRecordsNothing ==
    [][ (CallStep /\ last'.executed /\ last'.exec # "ok") =>
          /\ last'.outcome = "raised"
          /\ file' = last'.before ]_vars

C5_Witness ==
    /\ last.called /\ last.force
    /\ last.executed /\ last.exec = "dberr"
    /\ IsKnown(last.prior)
    /\ file.kind = "dict"
    /\ file.map[KeyOf(last.target)] = last.prior.v

(* C6: with a non-decreasing clock, a non-forced call that executes the    *)
(* refresh for a key starts no earlier than ttl after the timestamp the    *)
(* previous execution recorded for that key.                               *)
C6_OncePerTtlWindow ==
    (/\ last.called /\ ~last.force /\ last.executed
     /\ last.prev.some
     /\ KeyOf(last.prev.target) = KeyOf(last.target)) =>
      last.start >= last.prev.t + last.ttl

C6_Witness ==
    /\ last.called /\ ~last.force /\ last.executed
    /\ last.prev.some
    /\ last.prev.target = last.target
    /\ last.ttl > 0
    /\ last.exec = "ok"
    /\ lastRun.t >= last.prev.t + last.ttl

(* C7: whatever the state file holds, a call never fails because of it; a  *)
(* key without a valid timezone-aware timestamp is treated as Unknown, so  *)
(* a non-forced call runs the refresh and a successful run is recorded.    *)
C7_CorruptStateIsUnknown ==
    last.called =>
      /\ last.error \notin {"AttributeError", "TypeError"}
      /\ (~last.force /\ ~IsKnown(last.prior)) =>
           /\ last.executed
           /\ last.exec = "ok" => (last.result.ran /\ RecordedNow(file, last))

(* C8: targets that differ only in letter case have the same key, so after *)
(* a run recorded for one of them a non-forced call for the other within   *)
(* the ttl is skipped.                                                     *)
C8_KeyIgnoresCase ==
    (/\ last.called /\ ~last.force
     /\ last.prev.some
     /\ SameTarget(last.prev.target, last.target)
     /\ last.start < last.prev.t + last.ttl) =>
      /\ KeyOf(last.prev.target) = KeyOf(last.target)
      /\ ~last.executed
      /\ last.outcome = "returned"
      /\ ~last.result.ran

C10_FailureReturned ==
    (last.called /\ last.executed /\ last.exec # "ok") =>
      /\ last.outcome = "returned"
      /\ ~last.result.ran

(* C10 amended: when the executor fails, maybe_run_sp returns no result;   *)
(* the executor's exception escapes maybe_run_sp unchanged.                *)
C10_FailureRaised ==
    (last.called /\ last.executed /\ last.exec # "ok") =>
      /\ last.outcome = "raised"
      /\ last.error = last.exec
      /\ last.result = NoResult

C10_Witness ==
    /\ last.called /\ ~last.force /\ ~last.prior.some
    /\ last.executed /\ last.exec = "other"
    /\ last.outcome = "raised" /\ last.error = "other"

----------------------------------------------------------------------------
(* Business rule of main: src/pymlchurn/cli.py lines 177-206 (the same     *)
(* statements stand in src/pyMLChurn.py lines 282-313).                    *)
(*                                                                         *)
(* Dates are day numbers.  A cell of the as_of_date column is, after the   *)
(* normalisation of lines 155-156, a date string, pd.NA, or a string that  *)
(* is no date.  A cell of the in_renewal_grace column is True, False, NaN  *)
(* (a float column with a missing value) or None (an object column with a  *)
(* missing value).                                                         *)

(* Bound: the business rule is evaluated on last-purchase dates from 2     *)
(* days after today back to MaxDays days before today                      *)
MaxDays == 122

(* Program constants *)
BaseThresholdDays == 90      \* threshold = 90 + ...
GraceExtraDays == 30         \* ... + in_grace.astype(int) * 30
RecentDays == 90             \* elif days_i < 90 / th_i > 90

\* pd.Timestamp.today().normalize() of the run
Today == 1000

DateCell(d) == [kind |-> "date", day |-> d]
NaCell == [kind |-> "na", day |-> 0]
TextCell == [kind |-> "text", day |-> 0]

NaT == NoTime
NaN == NoTime

\* pd.to_datetime(df[DATE_COL], errors='coerce')
ToDatetime(cell) == IF cell.kind = "date" THEN Some(cell.day) ELSE NaT

\* Series.clip(lower=lo) of one number
ClipLower(n, lo) == IF n < lo THEN lo ELSE n

\* (today - as_of_dt).dt.days.clip(lower=0); NaT gives NaN
DaysSincePurchaseToday(today, as_of_dt) ==
    IF as_of_dt.some THEN Some(ClipLower(today - as_of_dt.v, 0)) ELSE NaN

GraceCells == {"true", "false", "nan", "none"}

\* Series.astype(bool) of one cell: bool(float('nan')) is True, bool(None)
\* is False
AsTypeBool(g) == g \in {"true", "nan"}

\* df.get('in_renewal_grace').astype(bool).fillna(False): after astype(bool)
\* no cell is missing, fillna changes nothing
InGrace(g) == AsTypeBool(g)

\* in_grace.astype(int)
BoolToInt(b) == IF b THEN 1 ELSE 0

Threshold_NoGrace(in_grace) == BaseThresholdDays

\* threshold = 90 + (in_grace.astype(int) * 30)
Threshold(in_grace) == BaseThresholdDays + BoolToInt(in_grace) * GraceExtraDays

BusinessChurnNow_Strict(days, threshold) ==
    IF days.some /\ days.v > threshold THEN 1 ELSE 0

\* (days_since_purchase_today >= threshold).astype(int); NaN >= n is False
BusinessChurnNow(days, threshold) ==
    IF days.some /\ days.v >= threshold THEN 1 ELSE 0

\* the reason strings; n is the number formatted into the f-string
ReasonText(text, n) == [text |-> text, n |-> n]

BusinessReason_NoGraceText(days, threshold, in_g, churn) ==
    LET days_i == IF days.some THEN days.v ELSE 0
    IN  IF churn = 1
        THEN ReasonText("No purchases for N days", days_i)
        ELSE IF days_i < RecentDays
             THEN ReasonText("Recent purchase within last 90 days", 0)
             ELSE ReasonText("Within adjusted threshold", 0)

\* the body of the loop over the records, lines 187-200
BusinessReason(days, threshold, in_g, churn) ==
    LET days_i == IF days.some THEN days.v ELSE 0
        th_i == threshold
    IN  IF churn = 1
        THEN IF in_g /\ th_i > RecentDays
             THEN ReasonText("No purchases for N days; Grace period exceeded",
                             days_i)
             ELSE ReasonText("No purchases for N days", days_i)
        ELSE IF in_g /\ days_i < th_i
             THEN ReasonText("In renewal grace period (extra 30 days)", 0)
             ELSE IF days_i < RecentDays
                  THEN ReasonText("Recent purchase within last 90 days", 0)
                  ELSE ReasonText("Within adjusted threshold", 0)

\* a record of df (the columns the block reads) and its row of pred_df
DfRow(date, grace) == [as_of_date |-> date, in_renewal_grace |-> grace]
PredRow(pred, pct) ==
    [predicted_churn_90d |-> pred, predicted_churn_probability_90d_pct |-> pct]

BusinessRuleRow_UsesPrediction(dfrow, predrow, today) ==
    LET days == DaysSincePurchaseToday(today, ToDatetime(dfrow.as_of_date))
        in_grace == InGrace(dfrow.in_renewal_grace)
        threshold == Threshold(in_grace)
        churn == IF predrow.predicted_churn_90d = 1 THEN 1
                 ELSE BusinessChurnNow(days, threshold)
    IN  [predicted_churn_90d |-> predrow.predicted_churn_90d,
         predicted_churn_probability_90d_pct |->
             predrow.predicted_churn_probability_90d_pct,
         days_since_last_purchase_today |-> days,
         business_churn_now |-> churn,
         business_churn_reason |->
             BusinessReason(days, threshold, in_grace, churn)]

\* lines 180-204 for one record: the row of pred_df with its three new
\* columns
BusinessRuleRow(dfrow, predrow, today) ==
    LET as_of_dt == ToDatetime(dfrow.as_of_date)
        days == DaysSincePurchaseToday(today, as_of_dt)
        in_grace == InGrace(dfrow.in_renewal_grace)
        threshold == Threshold(in_grace)
        churn == BusinessChurnNow(days, threshold)
    IN  [predicted_churn_90d |-> predrow.predicted_churn_90d,
         predicted_churn_probability_90d_pct |->
             predrow.predicted_churn_probability_90d_pct,
         days_since_last_purchase_today |-> days,
         business_churn_now |-> churn,
         business_churn_reason |->
             BusinessReason(days, threshold, in_grace, churn)]

(* Inputs: the same record position in two runs, a and b.  Run a takes     *)
(* every date of the range; run b has the same date, the day before, or    *)
(* no date.                                                                *)

RuleDates == { DateCell(Today - k) : k \in (0 - 2)..MaxDays }
                 \cup {NaCell, TextCell}

NearDates(cell) ==
    {cell, NaCell} \cup
    (IF cell.kind = "date" THEN {DateCell(cell.day - 1)} ELSE {})

PredRows == {PredRow(0, 20), PredRow(1, 80)}

NoOut ==
    [predicted_churn_90d |-> 0, predicted_churn_probability_90d_pct |-> 0,
     days_since_last_purchase_today |-> NaN, business_churn_now |-> 0,
     business_churn_reason |-> ReasonText("", 0)]

InitRule ==
    /\ file = Idle /\ clock = 0 /\ last = Idle /\ lastRun = Idle /\ calls = Idle
    /\ dd = Idle /\ tp = Idle /\ fn = Idle /\ mn = Idle
    /\ \E da \in RuleDates, ga \in GraceCells, pa \in PredRows,
          gb \in GraceCells, pb \in PredRows :
         \E db \in NearDates(da) :
           br = [pc |-> "scored", today |-> Today,
                 a |-> [df |-> DfRow(da, ga), pred |-> pa, out |-> NoOut],
                 b |-> [df |-> DfRow(db, gb), pred |-> pb, out |-> NoOut]]

\* the business-rule block of main, on the record of each of the two runs;
\* no cell of the model makes a statement of the block raise, so the handler
\* of line 205 is not entered
ApplyBusinessRule ==
    /\ br.pc = "scored"
    /\ br' = [br EXCEPT
                !.pc = "done",
                !.a.out = BusinessRuleRow(br.a.df, br.a.pred, br.today),
                !.b.out = BusinessRuleRow(br.b.df, br.b.pred, br.today)]
    /\ UNCHANGED <<file, clock, last, lastRun, calls, dd, tp, fn, mn>>

NextRule == ApplyBusinessRule

SpecRule == InitRule /\ [][NextRule]_vars

(* Vocabulary of the business-rule properties *)

\* the two records the rule has been applied to
RuleRuns == IF br.pc = "done" THEN {br.a, br.b} ELSE {}

\* whole days from the last-purchase date to today, never negative; 0 for a
\* record without a readable date
WholeDaysSince(today, cell) ==
    IF cell.kind = "date"
    THEN (IF today - cell.day > 0 THEN today - cell.day ELSE 0)
    ELSE 0

\* the record's grace indicator is a proper boolean
HasGraceFlag(r) == r.df.in_renewal_grace \in {"true", "false"}

(* C11: business_churn_now is 1 exactly when the days since the last       *)
(* purchase are at least the threshold, which is 120 for a record in       *)
(* renewal grace and 90 for a record not in grace.                         *)
C11_ChurnIffThreshold ==
    \A r \in RuleRuns :
      HasGraceFlag(r) =>
        LET days == WholeDaysSince(br.today, r.df.as_of_date)
            limit == IF r.df.in_renewal_grace = "true" THEN 120 ELSE 90
        IN  (r.out.business_churn_now = 1) <=> (days >= limit)

C11_Witness ==
    /\ br.pc = "done"
    /\ br.a.df = DfRow(DateCell(br.today - 110), "true")
    /\ br.a.out.business_churn_now = 0
    /\ br.b.df = DfRow(DateCell(br.today - 111), "false")
    /\ br.b.out.business_churn_now = 1

(* C12 as stated: the days-since-last-purchase value reported for a record *)
(* is max(0, today - last purchase date) in whole days, it is 0 for a      *)
(* record whose date is missing or unparseable, and such a record is never *)
(* flagged churned_now.                                                    *)
C12_DaysReported ==
    \A r \in RuleRuns :
      /\ r.out.days_since_last_purchase_today =
           Some(WholeDaysSince(br.today, r.df.as_of_date))
      /\ r.df.as_of_date.kind # "date" =>
           /\ r.out.days_since_last_purchase_today = Some(0)
           /\ r.out.business_churn_now = 0

(* C13: every scored record gets one business-rule reason: churned and in  *)
(* grace "No purchases for N days; Grace period exceeded", churned and not *)
(* in grace "No purchases for N days", not churned and in grace the        *)
(* grace-period reason, not churned and not in grace "Recent purchase      *)
(* within last 90 days"; N is the reported number of days.                 *)
C13_ReasonByCase ==
    \A r \in RuleRuns :
      HasGraceFlag(r) =>
        LET churned == r.out.business_churn_now = 1
            grace == r.df.in_renewal_grace = "true"
            n == WholeDaysSince(br.today, r.df.as_of_date)
        IN  r.out.business_churn_reason =
              IF churned /\ grace
              THEN ReasonText("No purchases for N days; Grace period exceeded", n)
              ELSE IF churned
              THEN ReasonText("No purchases for N days", n)
              ELSE IF grace
              THEN ReasonText("In renewal grace period (extra 30 days)", 0)
              ELSE ReasonText("Recent purchase within last 90 days", 0)

C13_Witness ==
    /\ br.pc = "done"
    /\ br.a.df = DfRow(DateCell(br.today - 121), "true")
    /\ br.a.out.business_churn_reason =
         ReasonText("No purchases for N days; Grace period exceeded", 121)
    /\ br.b.df = DfRow(DateCell(br.today - 121), "false")
    /\ br.b.out.business_churn_reason =
         ReasonText("No purchases for N days", 121)

\* the three columns the business rule adds to a row
BusinessColumns(out) ==
    <<out.days_since_last_purchase_today, out.business_churn_now,
      out.business_churn_reason>>

(* C14: two runs whose record has the same last-purchase date and grace    *)
(* flag, on the same current date, give the record the same business-rule  *)
(* outputs, whatever the model predicted for it in each run.               *)
C14_RuleIgnoresModel ==
    (br.pc = "done" /\ br.a.df = br.b.df) =>
      BusinessColumns(br.a.out) = BusinessColumns(br.b.out)

C14_Witness ==
    /\ br.pc = "done"
    /\ br.a.df = br.b.df
    /\ br.a.pred.predicted_churn_90d = 0
    /\ br.b.pred.predicted_churn_90d = 1
    /\ br.a.out.business_churn_now = 1
    /\ br.b.out.business_churn_now = 1

----------------------------------------------------------------------------
(* Date normalisation, --as-of filter and deduplication of main:           *)
(* src/pymlchurn/cli.py lines 152-160 (src/pyMLChurn.py lines 241-251).    *)
(*                                                                         *)
(* The cells of the date column are strings; Len, SubSeq and \o apply to   *)
(* them as to sequences of characters.                                     *)

(* Bound: the number of records the query returns *)
MaxRecords == 3

\* a cell of the as_of_date column as the query returns it: a string or None
DateStr(text) == [kind |-> "str", text |-> text]
DateNone == [kind |-> "none", text |-> ""]

\* astype(str) of one cell
AsTypeStr(cell) == IF cell.kind = "none" THEN "None" ELSE cell.text

\* the characters str.strip() removes, those of str.isspace(): the blank,
\* the tab, the line feed, the carriage return, the form feed, then the
\* vertical tab U+000B, the separators U+001C, U+001D, U+001E and U+001F,
\* the next line U+0085 and the no-break space U+00A0 (written as the
\* characters themselves).  The strings of this part have no character
\* above U+00FF, so the spaces of U+1680, U+2000-U+200A, U+2028, U+2029,
\* U+202F, U+205F and U+3000 do not occur in them.
Whitespace ==
    {" ", "\t", "\n", "\r", "\f",
     "", "", "", "", "", "", " "}

\* str.strip()
RECURSIVE Strip(_)
Strip(s) ==
    IF Len(s) > 0 /\ SubSeq(s, 1, 1) \in Whitespace
    THEN Strip(SubSeq(s, 2, Len(s)))
    ELSE IF Len(s) > 0 /\ SubSeq(s, Len(s), Len(s)) \in Whitespace
    THEN Strip(SubSeq(s, 1, Len(s) - 1))
    ELSE s

\* a cell after normalisation: a string, or pd.NA
StrCell(text) == [na |-> FALSE, text |-> text]
NA == [na |-> TRUE, text |-> ""]

\* the strings line 156 replaces by pd.NA
NullTexts == {"None", "NaT", "nan", ""}

\* df[DATE_COL].astype(str).str.strip() and .replace({...: pd.NA}) of one
\* cell
NormalizeDate(cell) ==
    LET stripped == Strip(AsTypeStr(cell))
    IN  IF stripped \in NullTexts THEN NA ELSE StrCell(stripped)

Record(id, customer_id, as_of_date) ==
    [id |-> id, customer_id |-> customer_id, as_of_date |-> as_of_date]

\* lines 155-156 on every record
NormalizeDates(df) ==
    [i \in 1..Len(df) |->
        Record(df[i].id, df[i].customer_id, NormalizeDate(df[i].as_of_date))]

\* the records of s whose position is in idx, in the order of s
RECURSIVE Pick(_, _, _)
Pick(s, idx, i) ==
    IF i > Len(s) THEN <<>>
    ELSE (IF i \in idx THEN <<s[i]>> ELSE <<>>) \o Pick(s, idx, i + 1)

NoAsOf == [some |-> FALSE, text |-> ""]
AsOf(text) == [some |-> TRUE, text |-> text]

\* df[df[DATE_COL] == args.as_of]; pd.NA == s is not True
FilterAsOf(df, as_of) ==
    Pick(df, { i \in 1..Len(df) :
                 /\ ~df[i].as_of_date.na
                 /\ df[i].as_of_date.text = as_of.text }, 1)

\* the printable characters of ASCII in the order of their code points
\* (without the double quote, the backslash and the grave accent)
CodeOrder ==
    " !#$%&'()*+,-./0123456789:;<=>?@ABCDEFGHIJKLMNOPQRSTUVWXYZ[]^_abcdefghijklmnopqrstuvwxyz{|}~"

\* the rank of every character among the characters
OrdOf ==
    [c \in { SubSeq(CodeOrder, i, i) : i \in 1..Len(CodeOrder) } |->
        CHOOSE i \in 1..Len(CodeOrder) : SubSeq(CodeOrder, i, i) = c]

Ord(c) == OrdOf[c]

\* s < t for two strings: at the first position where they differ the
\* character of s is the smaller one, or s is a proper prefix of t
StrLess(s, t) ==
    \/ /\ Len(s) < Len(t)
       /\ SubSeq(t, 1, Len(s)) = s
    \/ \E i \in 1..Len(s) :
         /\ i <= Len(t)
         /\ SubSeq(s, 1, i - 1) = SubSeq(t, 1, i - 1)
         /\ Ord(SubSeq(s, i, i)) < Ord(SubSeq(t, i, i))

\* x must precede y in sort_values([DATE_COL], na_position='first')
SortsBefore(x, y) ==
    \/ x.as_of_date.na /\ ~y.as_of_date.na
    \/ /\ ~x.as_of_date.na /\ ~y.as_of_date.na
       /\ StrLess(x.as_of_date.text, y.as_of_date.text)

Perms(n) ==
    { p \in [1..n -> 1..n] : \A i, j \in 1..n : p[i] = p[j] => i = j }

\* the results sort_values may give: the default sort is not stable, records
\* with equal keys come in any order
SortValues(df) ==
    { [i \in 1..Len(df) |-> df[p[i]]] :
        p \in { q \in Perms(Len(df)) :
                  \A i, j \in 1..Len(df) :
                    i < j => ~SortsBefore(df[q[j]], df[q[i]]) } }

DropDuplicates_KeepFirst(df) ==
    Pick(df, { i \in 1..Len(df) :
                 \A j \in 1..(i - 1) :
                   df[j].customer_id # df[i].customer_id }, 1)

\* drop_duplicates(subset=[CUSTOMER_ID_COL], keep='last')
DropDuplicates(df) ==
    Pick(df, { i \in 1..Len(df) :
                 \A j \in (i + 1)..Len(df) :
                   df[j].customer_id # df[i].customer_id }, 1)

(* Inputs *)

\* dates as CONVERT(varchar(10), ..., 23) of the query writes them
DedupDates == {"2023-12-31", "2024-01-15", "2024-03-01"}

\* the dates, a date with a blank before and a vertical tab (U+000B) after
\* it, the text None after a unit separator (U+001F), a blank, '' and None
RawDateCells ==
    { DateStr(text) : text \in DedupDates }
      \cup { DateStr(" 2024-03-01"), DateStr("None"), DateStr(" "),
             DateStr(""), DateNone }

Customers == {"c1", "c2"}

\* the data frames of n records; the id of a record is its position
Frames(n) ==
    { [i \in 1..n |-> Record(i, cust[i], cells[i])] :
        cust \in [1..n -> Customers], cells \in [1..n -> RawDateCells] }

DedupArgs ==
    [as_of : {NoAsOf, AsOf("2024-01-15")}, keep_all_rows : BOOLEAN]

InitDedup ==
    /\ file = Idle /\ clock = 0 /\ last = Idle /\ lastRun = Idle /\ calls = Idle
    /\ br = Idle /\ tp = Idle /\ fn = Idle /\ mn = Idle
    /\ \E n \in 0..MaxRecords :
         \E df \in Frames(n), args \in DedupArgs :
           dd = [pc |-> "queried", args |-> args, df |-> df,
                 entering |-> <<>>, out |-> <<>>]

\* lines 153-160; the date column is always in the query's result
NormalizeAndDeduplicate ==
    /\ dd.pc = "queried"
    /\ LET normal == NormalizeDates(dd.df)
           entering == IF dd.args.as_of.some
                       THEN FilterAsOf(normal, dd.args.as_of)
                       ELSE normal
       IN  \E sorted \in SortValues(entering) :
             dd' = [dd EXCEPT
                      !.pc = "done",
                      !.entering = entering,
                      !.out = IF ~dd.args.keep_all_rows
                              THEN DropDuplicates(sorted)
                              ELSE entering]
    /\ UNCHANGED <<file, clock, last, lastRun, calls, br, tp, fn, mn>>

NextDedup == NormalizeAndDeduplicate

SpecDedup == InitDedup /\ [][NextDedup]_vars

(* Vocabulary of the deduplication properties *)

RecordsOf(df) == { df[i] : i \in 1..Len(df) }

\* the number the digits of text[from..to] write
RECURSIVE NumberAt(_, _, _)
NumberAt(text, from, to) ==
    IF to < from THEN 0
    ELSE 10 * NumberAt(text, from, to - 1)
         + (Ord(SubSeq(text, to, to)) - Ord("0"))

\* the calendar order of two dates yyyy-mm-dd
DayNumber(text) ==
    NumberAt(text, 1, 4) * 372 + NumberAt(text, 6, 7) * 31 + NumberAt(text, 9, 10)

\* the dated records of a customer among the records entering deduplication
DatedOf(customer) ==
    { r \in RecordsOf(dd.entering) :
        r.customer_id = customer /\ ~r.as_of_date.na }

(* C15: unless keep-all-rows is set, after deduplication every customer id *)
(* of the records entering it occurs in exactly one record, one of the     *)
(* entering records; that record carries the customer's latest non-null    *)
(* snapshot date, and it has no date only if the customer has no dated     *)
(* record.  With keep-all-rows no record is dropped.                       *)
C15_LatestPerCustomer ==
    dd.pc = "done" =>
      IF dd.args.keep_all_rows
      THEN dd.out = dd.entering
      ELSE /\ RecordsOf(dd.out) \subseteq RecordsOf(dd.entering)
           /\ \A i, j \in 1..Len(dd.out) :
                dd.out[i].customer_id = dd.out[j].customer_id => i = j
           /\ \A r \in RecordsOf(dd.entering) :
                \E s \in RecordsOf(dd.out) : s.customer_id = r.customer_id
           /\ \A s \in RecordsOf(dd.out) :
                IF s.as_of_date.na
                THEN DatedOf(s.customer_id) = {}
                ELSE \A r \in DatedOf(s.customer_id) :
                       DayNumber(r.as_of_date.text) <= DayNumber(s.as_of_date.text)

C15_Witness ==
    /\ dd.pc = "done" /\ ~dd.args.keep_all_rows /\ ~dd.args.as_of.some
    /\ Len(dd.entering) = 3 /\ Len(dd.out) = 1
    /\ dd.df[1].as_of_date = DateStr("2024-01-15")
    /\ dd.df[2].as_of_date = DateStr("None")
    /\ dd.df[3].as_of_date = DateStr("2023-12-31")
    /\ dd.out[1].id = 1
----------------------------------------------------------------------------
(* Phrases of the explanations: src/pymlchurn/ml.py lines 64-225.          *)
(*                                                                         *)
(* A number (a float) is an integer n, n + 1/2, plus or minus infinity, or  *)
(* NaN.  A formatted value is the format the code chooses and the number   *)
(* it writes in that format; a phrase is its label, its formatted value    *)
(* and the way the two are put together.                                   *)

Num(n) == [nan |-> FALSE, v |-> n, part |-> "int"]
\* n + 1/2
Half(n) == [nan |-> FALSE, v |-> n, part |-> "half"]
\* float('inf') for sign = 1, float('-inf') for sign = -1
Inf(sign) == [nan |-> FALSE, v |-> sign, part |-> "inf"]
NotANumber == [nan |-> TRUE, v |-> 0, part |-> "int"]

\* x < 0
Negative(x) == ~x.nan /\ x.v < 0

\* round(x) of a finite x: a half goes to the even neighbour
Round(x) ==
    IF x.part = "half" THEN (IF x.v % 2 = 0 THEN x.v ELSE x.v + 1) ELSE x.v

\* str.startswith and str.endswith
StartsWith(s, prefix) ==
    Len(s) >= Len(prefix) /\ SubSeq(s, 1, Len(prefix)) = prefix
EndsWith(s, suffix) ==
    Len(s) >= Len(suffix) /\ SubSeq(s, Len(s) - Len(suffix) + 1, Len(s)) = suffix

\* _risk_direction
HighRisk ==
    {"recency_days", "median_gap_days", "p90_gap_days", "cv_gap",
     "rev_returns_90d", "credit_notes_90d", "orders_neg_30d",
     "backorder_qty_30d", "credit_notes_prev_month", "credit_notes_ma3",
     "threshold_days", "is_maintenance_heavy", "maint_cycle_days",
     "severity_score", "lateness_component", "credits_component",
     "trend_component"}

LowRisk ==
    {"rev_180d", "invoices_90d", "orders_pos_30d", "invoices_pos_prev_month",
     "mitigator_component"}

NegRisk == {"pct_change_3m", "pct_change_6m", "yoy_change_pct"}

RiskDirection(col) ==
    IF col \in HighRisk THEN "high"
    ELSE IF col \in LowRisk THEN "low"
    ELSE IF col \in NegRisk THEN "neg"
    ELSE "high"

\* _friendly_label
FriendlyLabels ==
    [recency_days |-> "No purchases for",
     median_gap_days |-> "Typical gap between purchases",
     p90_gap_days |-> "Long purchase gaps (90th percentile)",
     cv_gap |-> "Irregular buying cadence",
     in_renewal_grace |-> "In renewal grace period",
     rev_180d |-> "Revenue in last 180 days",
     rev_returns_90d |-> "Returns value in last 90 days",
     invoices_90d |-> "Invoices in last 90 days",
     credit_notes_90d |-> "Credit notes in last 90 days",
     orders_pos_30d |-> "Positive order value in last 30 days",
     orders_neg_30d |-> "Negative order value in last 30 days",
     backorder_qty_30d |-> "Backorder quantity in last 30 days",
     pct_change_3m |-> "Change vs prior 3 months",
     pct_change_6m |-> "Change vs prior 6 months",
     yoy_change_pct |-> "Year-over-year change",
     credit_notes_prev_month |-> "Credit notes last month",
     invoices_pos_prev_month |-> "Invoices last month",
     credit_notes_ma3 |-> "Credit notes per month (3-month average)",
     threshold_days |-> "Days past expected purchase threshold",
     is_maintenance_heavy |-> "Maintenance-heavy profile",
     maint_cycle_days |-> "Maintenance cycle length",
     severity_score |-> "Issue severity score",
     lateness_component |-> "Late purchase signal",
     credits_component |-> "Credits/returns signal",
     trend_component |-> "Negative trend signal",
     mitigator_component |-> "Mitigating signals"]

FriendlyLabel(col) ==
    IF col \in DOMAIN FriendlyLabels THEN FriendlyLabels[col] ELSE col

\* _format_value: the column names of each format
DaysCols == {"recency_days", "maint_cycle_days", "threshold_days"}

\* col.endswith("_days") or col in {...}
IsDaysCol(col) == EndsWith(col, "_days") \/ col \in DaysCols

CountCols ==
    {"invoices_90d", "backorder_qty_30d", "invoices_pos_prev_month",
     "credit_notes_90d", "credit_notes_prev_month"}

PercentCols == {"pct_change_3m", "pct_change_6m", "yoy_change_pct"}

MoneyCols == {"rev_180d", "rev_returns_90d", "orders_pos_30d", "orders_neg_30d"}

\* the text of the number x in the format fmt
Formatted(fmt, x) == [fmt |-> fmt, n |-> x]
NoText == Formatted("", Num(0))

\* int(round(float(value))) in the format fmt; round() of an infinity raises
\* OverflowError and the handler returns ""
FormatRounded(fmt, value) ==
    IF value.part = "inf" THEN NoText ELSE Formatted(fmt, Num(Round(value)))

\* lines 178-184: the integer when abs(v - round(v)) < 0.5, else two decimals
FormatGeneric(value) ==
    IF value.part = "inf" THEN NoText
    ELSE IF value.part = "half" THEN Formatted("N.NN", value)
    ELSE Formatted("N", Num(Round(value)))

\* faulty _format_value: without the test for a missing value
FormatValue_FormatsNaN(col, value) ==
    IF IsDaysCol(col) THEN FormatRounded("N days", value)
    ELSE IF col \in CountCols THEN FormatRounded("N", value)
    ELSE IF col = "credit_notes_ma3" THEN Formatted("N.NN per month", value)
    ELSE IF col \in PercentCols THEN Formatted("+N.N%", value)
    ELSE IF col \in MoneyCols THEN Formatted("$N.NN", value)
    ELSE FormatGeneric(value)

\* _format_value(col, value)
FormatValue(col, value) ==
    IF value.nan THEN NoText
    ELSE IF IsDaysCol(col) THEN FormatRounded("N days", value)
    ELSE IF col \in CountCols THEN FormatRounded("N", value)
    ELSE IF col = "credit_notes_ma3" THEN Formatted("N.NN per month", value)
    ELSE IF col \in PercentCols THEN Formatted("+N.N%", value)
    ELSE IF col \in MoneyCols THEN Formatted("$N.NN", value)
    ELSE FormatGeneric(value)

\* bool(value) of a float: only 0.0 is false, NaN is true
Truthy(value) == value.nan \/ value.v # 0 \/ value.part # "int"

SignalCols ==
    {"lateness_component", "credits_component", "trend_component",
     "mitigator_component"}

Phrase(label, form, val) == [label |-> label, form |-> form, val |-> val]
NoPhrase == Phrase("", "", NoText)

\* lines 210-218: the base text of a feature whose low values raise the
\* risk; of the four tests the last that holds decides
LowBase(label) ==
    IF StartsWith(label, "Mitigating") THEN "Few mitigating signals"
    ELSE IF StartsWith(label, "Revenue in") THEN "Low recent revenue"
    ELSE IF StartsWith(label, "Positive order value")
         THEN "Low positive order value (last 30 days)"
    ELSE IF StartsWith(label, "Invoices")
         THEN "Few invoices in last 90 days"
    ELSE label

\* the literal of line 192: between "Maintenance" and "heavy" it has the
\* three characters U+00E2, U+20AC, U+2018, not the hyphen of the label
MaintenanceHeavyText == "Maintenance<U+00E2><U+20AC><U+2018>heavy profile"

\* f"{label} ({val_txt})" if val_txt else label
WithValue(label, val_txt) ==
    IF val_txt # NoText THEN Phrase(label, "label (val)", val_txt)
    ELSE Phrase(label, "label", NoText)

\* _describe(col, value, z)
Describe(col, value, z) ==
    LET label == FriendlyLabel(col)
        direction == RiskDirection(col)
        val_txt == FormatValue(col, value)
    IN  IF col = "is_maintenance_heavy"
        THEN (IF Truthy(value)
              THEN Phrase(MaintenanceHeavyText, "label", NoText)
              ELSE NoPhrase)
        ELSE IF col = "in_renewal_grace"
        THEN (IF Truthy(value)
              THEN Phrase("In renewal grace period", "label", NoText)
              ELSE NoPhrase)
        ELSE IF direction = "neg"
        THEN (IF Negative(value)
              THEN Phrase(label, "label (val)", val_txt)
              ELSE NoPhrase)
        ELSE IF direction = "high"
        THEN (IF z <= 0 THEN NoPhrase
              ELSE IF col \in SignalCols THEN Phrase(label, "label", NoText)
              ELSE IF StartsWith(label, "No purchases for")
              THEN (IF val_txt # NoText
                    THEN Phrase(label, "label val", val_txt)
                    ELSE Phrase(Strip(label), "label", NoText))
              ELSE WithValue(label, val_txt))
        ELSE IF direction = "low"
        THEN (IF z >= 0 THEN NoPhrase
              ELSE IF col \in SignalCols
              THEN Phrase(LowBase(label), "label", NoText)
              ELSE WithValue(LowBase(label), val_txt))
        ELSE Phrase(label, "label (val)", val_txt)

----------------------------------------------------------------------------
(* train_and_predict: src/pymlchurn/ml.py lines 265-349.                   *)
(*                                                                         *)
(* The fit of the pipeline, the probabilities it predicts and the          *)
(* contributions (SHAP values, or standardised value times coefficient)    *)
(* are outcomes of scikit-learn and shap: the model draws them.  The       *)
(* probabilities and the contribution matrix are fixed before the loop     *)
(* over the rows (lines 283-285, 311); the model fixes, for every row, the *)
(* probability and whether the row has a positive contribution at that     *)
(* point, and draws the row's contributions, and the raw cell and          *)
(* standardised value of a feature, when the loop reads them.              *)
(*                                                                         *)
(* The imputer of the pipeline, SimpleImputer(strategy="median") (line     *)
(* 46), discards at transform a column that had no observed value at fit.  *)
(* Xt, coef_ and the SHAP values then have a column for each of the other  *)
(* features only, while the loop still takes the name and the raw cell of  *)
(* column idx from cfg.feature_cols[idx] (line 334).                       *)

(* Bound: the number of rows of the data frame *)
MaxRows == 2

(* Program constants *)
ProbaThresholdPct == 50      \* pred = (proba >= 0.5)
MaxPhrases == 3              \* if len(phrases) >= 3: break

\* cfg.feature_cols of the model: a feature of each kind _describe knows
FeatureCols == <<"recency_days", "in_renewal_grace", "rev_180d", "pct_change_3m">>

FeatureIdx == 1..Len(FeatureCols)

\* the features whose column the imputer keeps, in the order of
\* cfg.feature_cols: column p of Xt, of coef_ and of the contributions is
\* that of feature Kept(empty)[p]
Kept(empty) ==
    LET keeps(j) == j \notin empty
    IN  SelectSeq([j \in FeatureIdx |-> j], keeps)

\* the columns of Xt
XtCols(empty) == 1..Len(Kept(empty))

\* the column of Xt that holds feature j, a feature the imputer keeps
XtColOf(empty, j) == Cardinality({ k \in 1..j : k \notin empty })

MissingColumns_None(feature_cols, columns) == <<>>

\* missing = [c for c in cfg.feature_cols if c not in df.columns]
MissingColumns(feature_cols, columns) ==
    LET absent(c) == c \notin columns
    IN  SelectSeq(feature_cols, absent)

\* a raw cell of df: a number (or a boolean or a numeric string), a missing
\* value (None, NaN), or a string that is no number
RawNum(n) == [kind |-> "num", v |-> n]
\* the number n + 1/2, and plus or minus infinity
RawHalf(n) == [kind |-> "half", v |-> n]
RawInf(sign) == [kind |-> "inf", v |-> sign]
RawMissing == [kind |-> "missing", v |-> 0]
RawStr == [kind |-> "str", v |-> 0]

\* float(val) if pd.notna(val) else np.nan; float('abc') raises ValueError
ToFloat(val) ==
    IF val.kind = "missing" THEN [ok |-> TRUE, value |-> NotANumber]
    ELSE IF val.kind = "num" THEN [ok |-> TRUE, value |-> Num(val.v)]
    ELSE IF val.kind = "half" THEN [ok |-> TRUE, value |-> Half(val.v)]
    ELSE IF val.kind = "inf" THEN [ok |-> TRUE, value |-> Inf(val.v)]
    ELSE [ok |-> FALSE, value |-> NotANumber]

\* pd.to_numeric(..., errors="coerce").fillna(0).astype(int) of one label
\* (lines 278 and 352): a missing label or one that is no number is 0, a
\* fraction is cut off toward zero, and an infinite label makes astype(int)
\* raise IntCastingNaNError, a ValueError of pandas
ActualOf(cell) ==
    IF cell.kind = "num" THEN [ok |-> TRUE, v |-> cell.v]
    ELSE IF cell.kind = "half"
    THEN [ok |-> TRUE, v |-> IF cell.v >= 0 THEN cell.v ELSE cell.v + 1]
    ELSE IF cell.kind = "inf" THEN [ok |-> FALSE, v |-> 0]
    ELSE [ok |-> TRUE, v |-> 0]

\* pred = (proba >= 0.5).astype(int)
PredOf(proba_pct) == IF proba_pct >= ProbaThresholdPct THEN 1 ELSE 0

Abs(n) == IF n < 0 THEN 0 - n ELSE n

\* the key of np.argsort: contrib for a predicted churner, np.abs(contrib)
\* for the others
SortKey(pred, c) == IF pred = 1 THEN c ELSE Abs(c)

\* the columns of Xt the reversed argsort may yield next: those not yet
\* taken whose key is largest; equal keys come in an order numpy does not promise
NextInOrder(pred, contrib, visited) ==
    { j \in (DOMAIN contrib) \ visited :
        \A k \in (DOMAIN contrib) \ visited :
          SortKey(pred, contrib[k]) <= SortKey(pred, contrib[j]) }

\* if int(pred[i]) == 1 and contrib[idx] <= 0: continue
SkipContribution(pred, c) == pred = 1 /\ c <= 0

\* reasons[i]: "" as initialised, the generic sentence, or the phrases
\* joined with "; "
BlankReason == [kind |-> "blank", phrases |-> <<>>]

ReasonOf_NeverGeneric(phrases) ==
    IF Len(phrases) > 0
    THEN [kind |-> "phrases", phrases |-> phrases]
    ELSE BlankReason

\* "; ".join(phrases) if phrases else "elevated churn risk across ..."
ReasonOf(phrases) ==
    IF Len(phrases) > 0
    THEN [kind |-> "phrases", phrases |-> phrases]
    ELSE [kind |-> "generic", phrases |-> <<>>]

\* what the model keeps of the reason of a row it no longer looks at
Summary(reason) == reason.kind

(* Inputs *)

ProbaValues == {20, 50}
ContribValues == {0 - 2, 0, 1}
ZValues == {0 - 1, 0, 1}
\* a cell that pd.to_numeric(errors="coerce") reads as a number, and one
\* it turns into NaN
ObservedValues == {RawNum(0 - 2), RawNum(0)}
UnobservedValues == {RawMissing, RawStr}
RawValues == ObservedValues \cup UnobservedValues

\* the feature columns of the frame that have no observed value: none, or
\* in_renewal_grace
EmptyColumns == {{}, {2}}

\* df[col].iloc[i] in a frame of n rows: a column has no observed value
\* if it is empty, and has one in some row otherwise; in the frames of the
\* model that row is the last, for every column that is not empty
CellValues(empty, n, col, row) ==
    IF col \in empty THEN UnobservedValues
    ELSE IF row = n THEN ObservedValues
    ELSE RawValues

\* a row of the contribution matrix: a value for each column of Xt
ContribVectors(empty, positive) ==
    { c \in [XtCols(empty) -> ContribValues] :
        (\E j \in XtCols(empty) : c[j] > 0) <=> positive }

NoCur ==
    [row |-> 0, status |-> "none", contrib |-> [j \in FeatureIdx |-> 0],
     visited |-> {}, phrases |-> <<>>, reason |-> BlankReason]

InitTrain ==
    /\ file = Idle /\ clock = 0 /\ last = Idle /\ lastRun = Idle /\ calls = Idle
    /\ dd = Idle /\ br = Idle /\ fn = Idle /\ mn = Idle
    /\ \E absent \in SUBSET { FeatureCols[j] : j \in FeatureIdx },
          target_set \in BOOLEAN, target_in_df \in BOOLEAN,
          n \in 1..MaxRows, fit \in {"ok", "error"},
          label \in {RawNum(1), RawInf(1)},
          empty \in EmptyColumns :
         \* the fit needs labels of two classes, so two rows at least; the
         \* content of the columns is read after the fit only
         /\ fit = "ok" => n >= 2
         /\ (absent = {} /\ target_set /\ target_in_df /\ fit = "ok"
               /\ label = RawNum(1)) \/ empty = {}
         /\ tp = [pc |-> "called", empty |-> empty,
                  label |-> IF target_set /\ target_in_df THEN label
                            ELSE RawNum(1),
                  columns |-> ({ FeatureCols[j] : j \in FeatureIdx } \ absent)
                                \cup {"customer_id"}
                                \cup (IF target_in_df THEN {"target"} ELSE {}),
                  target_col |-> IF target_set THEN "target" ELSE "",
                  n |-> n, fit |-> fit,
                  coerced |-> FALSE, fitted |-> FALSE,
                  error |-> "none", missing |-> <<>>,
                  rows |-> <<>>, reasons |-> <<>>,
                  failed |-> 0, cur |-> NoCur]

HasLabels(t) == t.target_col # "" /\ t.target_col \in t.columns

\* lines 265-311: the column check, the coercion, the fit and the
\* predictions, the result frame, and the transform for the explanations
CheckFitPredict ==
    /\ tp.pc = "called"
    /\ LET missing == MissingColumns(FeatureCols, tp.columns)
       IN
       IF Len(missing) > 0
       THEN \* raise ValueError(f"Missing required feature columns: {missing}")
            tp' = [tp EXCEPT !.pc = "raised", !.error = "ValueError",
                             !.missing = missing]
       ELSE IF HasLabels(tp) /\ ~ActualOf(tp.label).ok
       THEN \* line 278: astype(int) raises on an infinite label
            tp' = [tp EXCEPT !.pc = "raised", !.error = "IntCastingNaNError",
                             !.coerced = TRUE]
       ELSE IF HasLabels(tp) /\ tp.fit = "error"
       THEN \* pipe.fit raises, e.g. on labels of a single class
            tp' = [tp EXCEPT !.pc = "raised", !.error = "FitError",
                             !.coerced = TRUE]
       ELSE IF ~HasLabels(tp)
       THEN \* proba and pred are zeros; pre.transform(X) of the pipeline
            \* that was never fitted raises NotFittedError at line 310
            tp' = [tp EXCEPT !.pc = "raised", !.error = "NotFittedError",
                             !.coerced = TRUE,
                             !.rows = [r \in 1..tp.n |->
                                         [proba_pct |-> 0, pred |-> 0,
                                          positive |-> FALSE]]]
       ELSE \E probas \in [1..tp.n -> ProbaValues],
               positive \in [1..tp.n -> BOOLEAN] :
              tp' = [tp EXCEPT
                       !.pc = "explaining", !.coerced = TRUE, !.fitted = TRUE,
                       !.rows = [r \in 1..tp.n |->
                                   [proba_pct |-> probas[r],
                                    pred |-> PredOf(probas[r]),
                                    positive |-> positive[r]]],
                       !.reasons = [r \in 1..tp.n |-> Summary(BlankReason)]]
    /\ UNCHANGED <<file, clock, last, lastRun, calls, dd, br, fn, mn>>

ExplainFailed_GenericRow(t, idx) ==
    [t EXCEPT !.failed = t.cur.row,
              !.cur.status = "closed",
              !.cur.visited = @ \cup {idx},
              !.cur.phrases = <<>>,
              !.cur.reason = ReasonOf(<<>>),
              !.reasons[t.cur.row] = Summary(ReasonOf(<<>>)),
              !.pc = IF t.cur.row = t.n THEN "explained" ELSE @]

\* lines 312 and 344-346: the try encloses the loop over the rows, so an
\* exception in the explanation of a row ends the loop; the reason of the
\* row and of the rows after it stay as initialised
ExplainFailed(t, idx) ==
    [t EXCEPT !.pc = "explained",
              !.failed = t.cur.row,
              !.cur.status = "failed",
              !.cur.visited = @ \cup {idx}]

\* lines 313-328: the loop takes the next row and its contributions,
\* phi[i] or Xt[i] * coefs: one for each column of Xt
BeginRow ==
    /\ tp.pc = "explaining"
    /\ tp.cur.status \in {"none", "closed"}
    /\ tp.cur.row < tp.n
    /\ \E contrib \in ContribVectors(tp.empty,
                                      tp.rows[tp.cur.row + 1].positive) :
         tp' = [tp EXCEPT !.cur = [row |-> tp.cur.row + 1, status |-> "open",
                                   contrib |-> contrib, visited |-> {},
                                   phrases |-> <<>>, reason |-> BlankReason]]
    /\ UNCHANGED <<file, clock, last, lastRun, calls, dd, br, fn, mn>>

\* lines 329-342: one pass of the loop over the columns of Xt, in the
\* order of their contributions.  idx is a column of Xt; the name and the
\* raw cell are those of column idx of cfg.feature_cols
VisitFeature ==
    /\ tp.pc = "explaining"
    /\ tp.cur.status = "open"
    /\ Len(tp.cur.phrases) < MaxPhrases
    /\ LET pred == tp.rows[tp.cur.row].pred
       IN
       \E idx \in NextInOrder(pred, tp.cur.contrib, tp.cur.visited) :
         IF SkipContribution(pred, tp.cur.contrib[idx])
         THEN tp' = [tp EXCEPT !.cur.visited = @ \cup {idx}]
         ELSE \E val \in CellValues(tp.empty, tp.n, idx, tp.cur.row),
                 z \in ZValues :
                LET f == ToFloat(val)
                    phrase == Describe(FeatureCols[idx], f.value, z)
                IN
                IF ~f.ok
                THEN tp' = ExplainFailed(tp, idx)
                ELSE tp' = [tp EXCEPT
                              !.cur.visited = @ \cup {idx},
                              !.cur.phrases =
                                  IF phrase # NoPhrase
                                  THEN Append(@, [idx |-> idx, text |-> phrase])
                                  ELSE @]
    /\ UNCHANGED <<file, clock, last, lastRun, calls, dd, br, fn, mn>>

\* line 343, at the break or at the end of the order
EndRow ==
    /\ tp.pc = "explaining"
    /\ tp.cur.status = "open"
    /\ \/ Len(tp.cur.phrases) >= MaxPhrases
       \/ tp.cur.visited = DOMAIN tp.cur.contrib
    /\ LET reason == ReasonOf(tp.cur.phrases)
       IN  tp' = [tp EXCEPT
                    !.cur.status = "closed",
                    !.cur.reason = reason,
                    !.reasons[tp.cur.row] = Summary(reason),
                    !.pc = IF tp.cur.row = tp.n THEN "explained" ELSE @]
    /\ UNCHANGED <<file, clock, last, lastRun, calls, dd, br, fn, mn>>

\* lines 349 and 387: the reasons become the column
\* predicted_churn_reason_90d of the result, which is returned (the columns
\* of the actual label, lines 351-385, are not looked at here)
Return ==
    /\ tp.pc = "explained"
    /\ tp' = [tp EXCEPT !.pc = "returned"]
    /\ UNCHANGED <<file, clock, last, lastRun, calls, dd, br, fn, mn>>

NextTrain == CheckFitPredict \/ BeginRow \/ VisitFeature \/ EndRow \/ Return

SpecTrain == InitTrain /\ [][NextTrain]_vars

(* Vocabulary of the train_and_predict properties *)

\* the required feature names that are no column of the data frame
AbsentFeatures(t) ==
    { FeatureCols[j] : j \in FeatureIdx } \ t.columns

\* the row the explanation loop is at, or was at last
CurPred == tp.rows[tp.cur.row].pred

\* feature j of cfg.feature_cols has a contribution for the current row of
\* loop t: the imputer keeps its column
Contributes(t, j) == j \notin t.empty

\* the contribution of feature j for the current row of loop t
Contribution(t, j) == t.cur.contrib[XtColOf(t.empty, j)]

(* C16: if a required feature name is absent from the data frame,          *)
(* train_and_predict raises an error that names exactly the absent         *)
(* columns, before any coercion, fit or prediction, and returns nothing;   *)
(* when no feature name is absent this error never occurs.                 *)
C16_MissingColumnsFailFast ==
    tp.pc \notin {"idle", "called"} =>
      IF AbsentFeatures(tp) # {}
      THEN /\ tp.pc = "raised" /\ tp.error = "ValueError"
           /\ { tp.missing[k] : k \in 1..Len(tp.missing) } = AbsentFeatures(tp)
           /\ ~tp.coerced /\ ~tp.fitted /\ tp.rows = <<>>
      ELSE tp.error # "ValueError"

C16_Witness ==
    /\ tp.pc = "raised" /\ tp.error = "ValueError"
    /\ tp.missing = <<"in_renewal_grace", "pct_change_3m">>
    /\ HasLabels(tp) /\ tp.fit = "ok"

(* C17 as stated: without labels (target column unset, or not a column of  *)
(* the data frame) train_and_predict does not fail; it fits no model and   *)
(* gives every row probability 0.0 and label 0.                            *)
C17_NoLabelsGivesZeros ==
    (tp.pc \notin {"idle", "called"} /\ AbsentFeatures(tp) = {}
       /\ ~HasLabels(tp)) =>
      /\ tp.pc # "raised"
      /\ ~tp.fitted
      /\ \A r \in 1..Len(tp.rows) :
           tp.rows[r].proba_pct = 0 /\ tp.rows[r].pred = 0

(* C18 as stated: an error while the explanation of row i is built does    *)
(* not abort the run; row i gets the generic reason and the reasons of the *)
(* other rows are still produced.                                          *)
C18_RowErrorDegradesRow ==
    (tp.pc = "returned" /\ tp.failed # 0) =>
      /\ tp.reasons[tp.failed] = "generic"
      /\ \A r \in 1..tp.n : r # tp.failed => tp.reasons[r] # "blank"

(* C18 amended: an error while the explanation of row i is built does not *)
(* abort the run: train_and_predict returns, the rows before i keep the    *)
(* reasons built for them, and row i and every row after it have an empty  *)
(* predicted reason.                                                       *)
C18_RowErrorBlanksRest ==
    /\ tp.pc \in {"explaining", "explained", "returned"} =>
         (tp.failed # 0 => tp.pc # "explaining")
    /\ (tp.pc = "returned" /\ tp.failed # 0) =>
         \A r \in 1..tp.n :
           IF r < tp.failed
           THEN tp.reasons[r] \in {"generic", "phrases"}
           ELSE tp.reasons[r] = "blank"

C18_Witness ==
    /\ tp.pc = "returned" /\ tp.n = 2 /\ tp.failed = 1
    /\ tp.reasons = <<"blank", "blank">>
    /\ Len(tp.cur.phrases) = 2

(* C19 as stated: for a row with predicted label 1 the predicted reason   *)
(* has at most 3 phrases, and each of them comes from a feature whose      *)
(* contribution for the row is strictly positive.  (A phrase is that of    *)
(* the feature it names, phrases[k].idx in cfg.feature_cols.)              *)
C19_PositiveDriversOnly ==
    (tp.pc \in {"explaining", "explained", "returned"}
       /\ tp.cur.status # "none" /\ CurPred = 1) =>
      /\ Len(tp.cur.phrases) <= 3
      /\ \A k \in 1..Len(tp.cur.phrases) :
           /\ Contributes(tp, tp.cur.phrases[k].idx)
           /\ Contribution(tp, tp.cur.phrases[k].idx) > 0
      /\ tp.cur.status = "closed" =>
           /\ tp.cur.reason.phrases = tp.cur.phrases
           /\ tp.reasons[tp.cur.row] = tp.cur.reason.kind

\* the reason of a row predicted 1 has a phrase of a feature whose column
\* the imputer discarded: the feature has no contribution
ReportsDiscardedFeature ==
    /\ tp.pc \in {"explaining", "explained", "returned"}
    /\ tp.cur.status = "closed" /\ CurPred = 1
    /\ \E k \in 1..Len(tp.cur.reason.phrases) :
         ~Contributes(tp, tp.cur.reason.phrases[k].idx)

(* C20 as stated: a row with predicted label 1 whose contributions are all *)
(* <= 0 has the generic reason "elevated churn risk across multiple        *)
(* signals".                                                               *)
C20_NoDriverGivesGeneric ==
    tp.pc = "returned" =>
      \A r \in 1..tp.n :
        (tp.rows[r].pred = 1 /\ ~tp.rows[r].positive) =>
          tp.reasons[r] = "generic"

(* C20 amended: a row with predicted label 1 whose contributions are all  *)
(* <= 0 has the generic reason if the explanation loop reached it; if the  *)
(* explanation of an earlier row raised an error, its reason is empty.     *)
C20_NoDriverGenericIfReached ==
    tp.pc = "returned" =>
      \A r \in 1..tp.n :
        (tp.rows[r].pred = 1 /\ ~tp.rows[r].positive) =>
          tp.reasons[r] =
            IF tp.failed # 0 /\ tp.failed < r THEN "blank" ELSE "generic"

C20_Witness ==
    /\ tp.pc = "returned" /\ tp.n = 2 /\ tp.failed = 0
    /\ tp.rows[2].pred = 1 /\ ~tp.rows[2].positive
    /\ tp.cur.row = 2 /\ tp.cur.visited = FeatureIdx
    /\ tp.reasons[2] = "generic"

(* C27: the reason "Within adjusted threshold" is never given: a record    *)
(* that is not churned gets the grace-period reason when it is in grace    *)
(* and "Recent purchase within last 90 days" when it is not, whatever its  *)
(* days since the last purchase.                                           *)
C27_NoResidualReason ==
    \A r \in RuleRuns :
      /\ r.out.business_churn_reason.text # "Within adjusted threshold"
      /\ (r.out.business_churn_now = 0 /\ HasGraceFlag(r)) =>
           r.out.business_churn_reason =
             IF r.df.in_renewal_grace = "true"
             THEN ReasonText("In renewal grace period (extra 30 days)", 0)
             ELSE ReasonText("Recent purchase within last 90 days", 0)

C27_Witness ==
    /\ br.pc = "done"
    /\ br.a.df = DfRow(DateCell(br.today - 89), "false")
    /\ br.a.out.business_churn_reason =
         ReasonText("Recent purchase within last 90 days", 0)
    /\ br.b.df = DfRow(DateCell(br.today - 90), "true")
    /\ br.b.out.business_churn_reason =
         ReasonText("In renewal grace period (extra 30 days)", 0)

(* C28 as stated: a record whose grace indicator is missing (None or NaN)  *)
(* is treated as not in grace: it is churned exactly from 90 days on and   *)
(* never gets a reason that speaks of the grace period.                    *)
C28_MissingGraceNotInGrace ==
    \A r \in RuleRuns :
      r.df.in_renewal_grace \in {"nan", "none"} =>
        /\ (r.out.business_churn_now = 1) <=>
             (WholeDaysSince(br.today, r.df.as_of_date) >= 90)
        /\ r.out.business_churn_reason.text \notin
             {"In renewal grace period (extra 30 days)",
              "No purchases for N days; Grace period exceeded"}


----------------------------------------------------------------------------
(* C29: the key is injective on case-folded targets: two targets that      *)
(* differ in more than letter case have different keys, so a run recorded  *)
(* for one target never suppresses the refresh of a different target: a    *)
(* non-forced call for the other target that was due before the run was    *)
(* recorded is still due after it, under every policy.                     *)
C29_OtherTargetNotSuppressed ==
    [][ (CallStep /\ last'.outcome = "returned" /\ last'.result.ran) =>
          \A tg \in Targets :
            ~SameTarget(tg, last'.target) =>
              /\ KeyOf(tg) # KeyOf(last'.target)
              /\ \A h \in 0..MaxTtl :
                   ShouldRun(last'.before, KeyOf(tg), Policy(h), clock').doit =>
                     ShouldRun(file', KeyOf(tg), Policy(h), clock').doit ]_vars

----------------------------------------------------------------------------
(* execute_stored_procedure, attempt by attempt.  fn holds the call: its   *)
(* arguments, the attempt the loop is at, the invocations of the procedure *)
(* made so far, the waits made so far, and how the call ended.             *)

MaxRetries == 3

BackoffValues == {1, 2}

AttemptOutcomes == {"ok", "dberr", "other"}

ExecCall(retries, backoff, outs) ==
    [pc |-> "attempting", retries |-> retries, backoff |-> backoff,
     outs |-> outs, attempt |-> 1, calls |-> 0, sleeps |-> <<>>,
     error |-> "none"]

\* faulty loop: sleeps after the last failed attempt too, then raises
RetryStep_SleepsAfterLast(e) ==
    IF e.attempt > e.retries
    THEN [e EXCEPT !.pc = "raised", !.error = "raise_none"]
    ELSE
      LET called == [e EXCEPT !.calls = @ + 1] IN
      IF e.outs[e.attempt] = "ok"
      THEN [called EXCEPT !.pc = "returned"]
      ELSE IF e.outs[e.attempt] = "dberr"
      THEN LET slept == [called EXCEPT
                           !.sleeps = Append(@, [after |-> e.attempt,
                                                 secs |-> e.backoff * Pow2(e.attempt - 1)])]
           IN
           IF e.attempt >= e.retries
           THEN [slept EXCEPT !.pc = "raised", !.error = "dberr"]
           ELSE [slept EXCEPT !.attempt = @ + 1]
      ELSE [called EXCEPT !.pc = "raised", !.error = "other"]

\* one pass of the loop body (or the statement after the loop when the
\* range is exhausted)
RetryStep(e) ==
    IF e.attempt > e.retries
    THEN [e EXCEPT !.pc = "raised", !.error = "raise_none"]
    ELSE
      LET called == [e EXCEPT !.calls = @ + 1] IN
      IF e.outs[e.attempt] = "ok"
      THEN [called EXCEPT !.pc = "returned"]
      ELSE IF e.outs[e.attempt] = "dberr"
      THEN IF e.attempt >= e.retries
           THEN [called EXCEPT !.pc = "raised", !.error = "dberr"]
           ELSE [called EXCEPT
                   !.attempt = @ + 1,
                   !.sleeps = Append(@, [after |-> e.attempt,
                                         secs |-> e.backoff * Pow2(e.attempt - 1)])]
      ELSE [called EXCEPT !.pc = "raised", !.error = "other"]

InitExec ==
    /\ file = Idle /\ clock = 0 /\ last = Idle /\ lastRun = Idle /\ calls = Idle
    /\ dd = Idle /\ br = Idle /\ tp = Idle /\ mn = Idle
    /\ \E n \in 0..MaxRetries, b \in BackoffValues :
         \E outs \in [1..n -> AttemptOutcomes] :
           fn = ExecCall(n, b, outs)

Attempt ==
    /\ fn.pc = "attempting"
    /\ fn' = RetryStep(fn)
    /\ UNCHANGED <<file, clock, last, lastRun, calls, dd, br, tp, mn>>

NextExec == Attempt

SpecExec == InitExec /\ [][NextExec]_vars

\* the interpreter runs the loop to its end
SpecExecLive == SpecExec /\ WF_vars(Attempt)

ExecEnded == fn.pc \in {"returned", "raised"}

\* the attempts invoked so far that raised a connectivity error
FailedAttempts(e) == { k \in 1..e.calls : e.outs[k] = "dberr" }

ExecSafe ==
    fn.retries >= 1 =>
      /\ fn.calls <= fn.retries
      /\ \A k \in 1..fn.calls :
           /\ fn.outs[k] = "ok" => (k = fn.calls /\ fn.pc = "returned")
           /\ fn.outs[k] = "other" =>
                (k = fn.calls /\ fn.pc = "raised" /\ fn.error = "other")
      /\ fn.pc = "returned" => fn.outs[fn.calls] = "ok"
      /\ fn.pc = "raised" =>
           \/ fn.error = "other"
           \/ /\ fn.error = "dberr" /\ fn.calls = fn.retries
              /\ FailedAttempts(fn) = 1..fn.retries
      /\ { s.after : s \in { fn.sleeps[i] : i \in 1..Len(fn.sleeps) } } =
           { k \in FailedAttempts(fn) : k < fn.retries }
      /\ \A i \in 1..Len(fn.sleeps) :
           /\ fn.sleeps[i].after = i
           /\ fn.sleeps[i].secs = fn.backoff * Pow2(i - 1)

(* C30: execute_stored_procedure with retries = n >= 1 always terminates:  *)
(* it invokes the procedure at most n times, returns after the first       *)
(* success, waits backoff * 2^(k-1) seconds after the k-th failed attempt  *)
(* only when k < n, re-raises after the n-th connectivity failure, and a   *)
(* non-connectivity error propagates at once, without retry.               *)
C30_RetryTerminates == []ExecSafe /\ <>ExecEnded

C30_Witness ==
    /\ fn.pc = "raised" /\ fn.error = "dberr"
    /\ fn.retries = 3 /\ fn.calls = 3 /\ fn.backoff = 2
    /\ fn.sleeps = <<[after |-> 1, secs |-> 2], [after |-> 2, secs |-> 4]>>

----------------------------------------------------------------------------
(* One feature of one row put into words: src/pymlchurn/ml.py lines        *)
(* 334-342, over every feature of the schema and two features a caller    *)
(* may name in MLConfig.feature_cols.  fn holds the feature, the raw cell  *)
(* of the row and the standardised value, and then what the lines make of  *)
(* them.                                                                   *)

\* feature_columns()
FeatureColumns == DOMAIN FriendlyLabels

\* cfg.feature_cols: the schema, a column outside it whose name ends in
\* "_days", and one whose name begins like the label of recency_days and
\* ends in a blank and a vertical tab (U+000B)
DescribeColumns == FeatureColumns \cup {"lead_days", "No purchases for weeks "}

FlagCols == {"is_maintenance_heavy", "in_renewal_grace"}

\* the raw cells of a feature: numbers (a true flag is 1, a false flag 0),
\* among them halves and the infinities, a missing value, a string that is
\* no number
DescribeValues ==
    {RawNum(-2), RawNum(0), RawNum(1), RawHalf(1), RawHalf(2), RawHalf(-3),
     RawInf(1), RawInf(-1), RawMissing, RawStr}

InitDescribe ==
    /\ file = Idle /\ clock = 0 /\ last = Idle /\ lastRun = Idle /\ calls = Idle
    /\ dd = Idle /\ br = Idle /\ tp = Idle /\ mn = Idle
    /\ \E col \in DescribeColumns, val \in DescribeValues, z \in ZValues :
         fn = [pc |-> "visiting", col |-> col, val |-> val, z |-> z,
               val_txt |-> NoText, phrase |-> NoPhrase, phrases |-> <<>>]

\* lines 334-342: the phrase of the feature, appended when it is not empty
DescribeFeature ==
    /\ fn.pc = "visiting"
    /\ LET f == ToFloat(fn.val)
           phrase == Describe(fn.col, f.value, fn.z)
       IN
       IF ~f.ok
       THEN fn' = [fn EXCEPT !.pc = "failed"]
       ELSE fn' = [fn EXCEPT
                     !.pc = "done",
                     !.val_txt = FormatValue(fn.col, f.value),
                     !.phrase = phrase,
                     !.phrases = IF phrase # NoPhrase
                                 THEN Append(@, phrase) ELSE @]
    /\ UNCHANGED <<file, clock, last, lastRun, calls, dd, br, tp, mn>>

NextDescribe == DescribeFeature

SpecDescribe == InitDescribe /\ [][NextDescribe]_vars

\* the feature was put into words and its raw value was missing
DescribedMissing == fn.pc = "done" /\ fn.val = RawMissing

(* C22 as stated: a feature whose raw value is missing or NaN contributes  *)
(* no phrase: its formatted value is the empty string and the feature is   *)
(* skipped during phrase assembly, for every feature and risk direction.   *)
C22_MissingValueNoPhrase ==
    DescribedMissing =>
      /\ fn.val_txt = NoText
      /\ fn.phrase = NoPhrase
      /\ fn.phrases = <<>>

(* C22 amended: the formatted value of a missing or NaN raw value is the   *)
(* empty string, so a phrase of the feature carries no value; the feature  *)
(* is skipped only when its direction is negative-change.  A high-risk     *)
(* feature still contributes its bare label when its standardised value is *)
(* above zero, a low-risk feature its bare deficiency text when it is      *)
(* below zero.                                                             *)
C22_MissingValueBareLabel ==
    DescribedMissing =>
      /\ fn.val_txt = NoText
      /\ fn.phrase.val = NoText
      /\ fn.phrase # NoPhrase =>
           (fn.phrase.form = "label" /\ fn.phrases = <<fn.phrase>>)
      /\ fn.col \notin FlagCols =>
           /\ fn.col \in NegRisk => fn.phrase = NoPhrase
           /\ fn.col \in HighRisk =>
                fn.phrase = IF fn.z > 0
                            THEN Phrase(FriendlyLabel(fn.col), "label", NoText)
                            ELSE NoPhrase
           /\ fn.col \in LowRisk =>
                fn.phrase = IF fn.z < 0
                            THEN Phrase(LowBase(FriendlyLabel(fn.col)), "label", NoText)
                            ELSE NoPhrase

C22_Witness ==
    /\ DescribedMissing
    /\ fn.col = "recency_days" /\ fn.z = 1
    /\ fn.phrases = <<Phrase("No purchases for", "label", NoText)>>

\* the flag of a raw cell is true: a number other than 0
FlagIsTrue(val) == val.kind \in {"half", "inf"} \/ (val.kind = "num" /\ val.v # 0)

(* C23: the boolean-flag features is_maintenance_heavy and                 *)
(* in_renewal_grace render their fixed phrase exactly when the flag is     *)
(* true, and nothing when it is false or not true, whatever the            *)
(* standardised value.                                                     *)
C23_FlagPhraseIffTrue ==
    (fn.pc = "done" /\ fn.col \in FlagCols) =>
      fn.phrase =
        IF FlagIsTrue(fn.val)
        THEN Phrase(IF fn.col = "is_maintenance_heavy"
                    THEN MaintenanceHeavyText
                    ELSE "In renewal grace period", "label", NoText)
        ELSE NoPhrase

----------------------------------------------------------------------------
\* the step considers a feature of the current row: the one it adds to
\* visited, by its place in cfg.feature_cols
ConsidersFeature ==
    /\ tp.pc = "explaining" /\ tp.cur.status = "open"
    /\ tp'.cur.row = tp.cur.row
    /\ tp'.cur.visited # tp.cur.visited

(* C24 as stated: for every row whose predicted label is 0 the features  *)
(* are considered in descending order of the absolute value of their       *)
(* contribution, sign ignored, and no feature is considered once 3 phrases *)
(* are gathered; the row's reason is made when 3 phrases are gathered or   *)
(* every feature that has a contribution has been considered.              *)
C24_NotChurnedByMagnitude ==
    [][ /\ (ConsidersFeature /\ CurPred = 0) =>
             /\ Len(tp.cur.phrases) < MaxPhrases
             /\ \E idx \in FeatureIdx \ tp.cur.visited :
                  /\ tp'.cur.visited = tp.cur.visited \cup {idx}
                  /\ Contributes(tp, idx)
                  /\ \A k \in tp.cur.visited :
                       /\ Contributes(tp, k)
                       /\ Abs(Contribution(tp, k)) >= Abs(Contribution(tp, idx))
                  /\ \A k \in FeatureIdx \ tp.cur.visited :
                       Contributes(tp, k) =>
                         Abs(Contribution(tp, k)) <= Abs(Contribution(tp, idx))
        /\ (tp.pc = "explaining" /\ tp.cur.status = "open" /\ CurPred = 0
              /\ tp'.cur.status = "closed") =>
             \/ Len(tp.cur.phrases) = MaxPhrases
             \/ tp.cur.visited = { k \in FeatureIdx : Contributes(tp, k) } ]_vars

----------------------------------------------------------------------------
(* The reasons of the actual label: src/pymlchurn/ml.py lines 351-385,     *)
(* when cfg.target_col is a column of the data frame.  The pipeline is     *)
(* fitted and the contributions are fixed (line 311); as in the loop of    *)
(* the predicted reasons the model fixes for every row whether it has a    *)
(* positive contribution and draws the contributions, the raw cells and    *)
(* the standardised values when the loop reads them.  The contributions    *)
(* are those of the columns of Xt, the name and the raw cell those of      *)
(* cfg.feature_cols[idx] (line 373).                                       *)

\* a cell of the label column: a number (1.5 among them) or a missing
\* value; no label is infinite, or line 278 would have raised
LabelCells == {RawNum(0), RawNum(1), RawNum(2), RawHalf(1), RawMissing}

\* "; ".join(phrases) if phrases else "observed churn within 90 days"
ActualReasonOf(phrases) ==
    IF Len(phrases) > 0
    THEN [kind |-> "phrases", phrases |-> phrases]
    ELSE [kind |-> "observed", phrases |-> <<>>]

InitActual ==
    /\ file = Idle /\ clock = 0 /\ last = Idle /\ lastRun = Idle /\ calls = Idle
    /\ dd = Idle /\ br = Idle /\ tp = Idle /\ mn = Idle
    /\ \E n \in 1..MaxRows, empty \in EmptyColumns :
         \E cells \in [1..n -> LabelCells], positive \in [1..n -> BOOLEAN] :
           \* the pipeline is fitted: the labels are of two classes
           /\ \E r1, r2 \in 1..n :
                ActualOf(cells[r1]).v # ActualOf(cells[r2]).v
           /\ fn = [pc |-> "called", n |-> n,
                    empty |-> empty,
                    rows |-> [r \in 1..n |->
                                [cell |-> cells[r], actual |-> 0,
                                 positive |-> positive[r]]],
                    reasons |-> <<>>, failed |-> 0, cur |-> NoCur]

\* lines 352-355: the labels as integers, the reasons initialised to ""
ReadLabels ==
    /\ fn.pc = "called"
    /\ fn' = [fn EXCEPT
                !.pc = "labelling",
                !.rows = [r \in 1..fn.n |->
                            [fn.rows[r] EXCEPT !.actual = ActualOf(fn.rows[r].cell).v]],
                !.reasons = [r \in 1..fn.n |-> Summary(BlankReason)]]
    /\ UNCHANGED <<file, clock, last, lastRun, calls, dd, br, tp, mn>>

\* lines 356 and 383-384: the try encloses the loop over the rows
ActualFailed(e, idx) ==
    [e EXCEPT !.pc = "labelled",
              !.failed = e.cur.row,
              !.cur.status = "failed",
              !.cur.visited = @ \cup {idx}]

\* lines 357-366: the loop takes the next row; a row whose label is not 1
\* is passed over
ActualBeginRow ==
    /\ fn.pc = "labelling"
    /\ fn.cur.status \in {"none", "closed", "skipped"}
    /\ fn.cur.row < fn.n
    /\ LET r == fn.cur.row + 1 IN
       IF fn.rows[r].actual # 1
       THEN fn' = [fn EXCEPT
                     !.cur = [NoCur EXCEPT !.row = r, !.status = "skipped"],
                     !.pc = IF r = fn.n THEN "labelled" ELSE @]
       ELSE \E contrib \in ContribVectors(fn.empty, fn.rows[r].positive) :
              fn' = [fn EXCEPT
                       !.cur = [row |-> r, status |-> "open",
                                contrib |-> contrib, visited |-> {},
                                phrases |-> <<>>, reason |-> BlankReason]]
    /\ UNCHANGED <<file, clock, last, lastRun, calls, dd, br, tp, mn>>

\* lines 367-381: one pass of the loop over the columns of Xt, in the
\* order of the rows predicted 1
ActualVisitFeature ==
    /\ fn.pc = "labelling"
    /\ fn.cur.status = "open"
    /\ Len(fn.cur.phrases) < MaxPhrases
    /\ \E idx \in NextInOrder(1, fn.cur.contrib, fn.cur.visited) :
         IF SkipContribution(1, fn.cur.contrib[idx])
         THEN fn' = [fn EXCEPT !.cur.visited = @ \cup {idx}]
         ELSE \E val \in CellValues(fn.empty, fn.n, idx, fn.cur.row),
                 z \in ZValues :
                LET f == ToFloat(val)
                    phrase == Describe(FeatureCols[idx], f.value, z)
                IN
                IF ~f.ok
                THEN fn' = ActualFailed(fn, idx)
                ELSE fn' = [fn EXCEPT
                              !.cur.visited = @ \cup {idx},
                              !.cur.phrases =
                                  IF phrase # NoPhrase
                                  THEN Append(@, [idx |-> idx, text |-> phrase])
                                  ELSE @]
    /\ UNCHANGED <<file, clock, last, lastRun, calls, dd, br, tp, mn>>

\* line 382, at the break or at the end of the order
ActualEndRow ==
    /\ fn.pc = "labelling"
    /\ fn.cur.status = "open"
    /\ \/ Len(fn.cur.phrases) >= MaxPhrases
       \/ fn.cur.visited = DOMAIN fn.cur.contrib
    /\ LET reason == ActualReasonOf(fn.cur.phrases)
       IN  fn' = [fn EXCEPT
                    !.cur.status = "closed",
                    !.cur.reason = reason,
                    !.reasons[fn.cur.row] = Summary(reason),
                    !.pc = IF fn.cur.row = fn.n THEN "labelled" ELSE @]
    /\ UNCHANGED <<file, clock, last, lastRun, calls, dd, br, tp, mn>>

\* lines 385-387: the reasons become the column actual_churn_reason_90d
ActualReturn ==
    /\ fn.pc = "labelled"
    /\ fn' = [fn EXCEPT !.pc = "returned"]
    /\ UNCHANGED <<file, clock, last, lastRun, calls, dd, br, tp, mn>>

NextActual ==
    \/ ReadLabels
    \/ ActualBeginRow
    \/ ActualVisitFeature
    \/ ActualEndRow
    \/ ActualReturn

SpecActual == InitActual /\ [][NextActual]_vars

\* the loop is at a row of label 1, or was at it last
AtActualRow ==
    /\ fn.pc \in {"labelling", "labelled", "returned"}
    /\ fn.cur.status \in {"open", "closed", "failed"}

\* the phrases gathered for the row are at most 3 and are those of
\* features with a strictly positive contribution, the greater
\* contribution first; the features considered so far have the greatest
\* contributions
RankedPositive ==
    /\ Len(fn.cur.phrases) <= 3
    /\ \A k \in 1..Len(fn.cur.phrases) :
         /\ Contributes(fn, fn.cur.phrases[k].idx)
         /\ Contribution(fn, fn.cur.phrases[k].idx) > 0
         /\ \A l \in 1..Len(fn.cur.phrases) :
              (k < l /\ Contributes(fn, fn.cur.phrases[l].idx)) =>
                Contribution(fn, fn.cur.phrases[k].idx)
                  >= Contribution(fn, fn.cur.phrases[l].idx)
    /\ \A k \in fn.cur.visited :
         /\ Contributes(fn, k)
         /\ \A j \in FeatureIdx \ fn.cur.visited :
              Contributes(fn, j) => Contribution(fn, j) <= Contribution(fn, k)

(* C25 as stated: when labels are available, an actual-side reason is     *)
(* produced only for rows whose actual label is 1 (the other rows get an   *)
(* empty reason); it uses at most 3 phrases from strictly positive         *)
(* contributions ranked descending by signed value, and is "observed       *)
(* churn within 90 days" when no phrase qualifies.                         *)
C25_ActualReason ==
    /\ AtActualRow =>
         /\ fn.rows[fn.cur.row].actual = 1
         /\ RankedPositive
         /\ fn.cur.status = "closed" =>
              /\ fn.cur.reason = ActualReasonOf(fn.cur.phrases)
              /\ fn.reasons[fn.cur.row] = fn.cur.reason.kind
    /\ fn.pc = "returned" =>
         \A r \in 1..fn.n :
           /\ fn.rows[r].actual # 1 => fn.reasons[r] = "blank"
           /\ (fn.rows[r].actual = 1 /\ ~fn.rows[r].positive) =>
                fn.reasons[r] = "observed"

----------------------------------------------------------------------------
(* _coerce_types: src/pymlchurn/ml.py lines 29-39.                         *)
(*                                                                         *)
(* A data frame is a function from its column names to columns; a column   *)
(* has a dtype and cells.  A cell is a boolean, an integer, a string that  *)
(* reads as an integer, a string that does not, or a missing value (None   *)
(* in an object column, NaN in a float column).                            *)

(* Bound: the number of rows of the data frame *)
MaxCells == 2

CBool(b) == [kind |-> "bool", b |-> b, v |-> 0]
CInt(n) == [kind |-> "int", b |-> FALSE, v |-> n]
CNumStr(n) == [kind |-> "numstr", b |-> FALSE, v |-> n]
CBadStr == [kind |-> "badstr", b |-> FALSE, v |-> 0]
CMissing == [kind |-> "missing", b |-> FALSE, v |-> 0]

Column(dtype, cells) == [dtype |-> dtype, cells |-> cells]

CellKinds(col) == { col.cells[i].kind : i \in 1..Len(col.cells) }

\* Series.astype(int) of a bool column
BoolColumnToInt(col) ==
    Column("int64",
           [i \in 1..Len(col.cells) |-> CInt(IF col.cells[i].b THEN 1 ELSE 0)])

\* the number pd.to_numeric reads in a cell of an object column
NumberOf(c) ==
    IF c.kind = "bool" THEN CInt(IF c.b THEN 1 ELSE 0)
    ELSE IF c.kind \in {"int", "numstr"} THEN CInt(c.v)
    ELSE CMissing

\* pd.to_numeric(column, errors="coerce"): a numeric column (bool, int64,
\* float64) is returned as it is; in an object column every cell is read
\* as a number, what cannot be read becomes NaN; the result is float64
\* when a NaN is in it, a bool column when every cell is a boolean, and
\* int64 otherwise
ToNumeric(col) ==
    IF col.dtype # "object" THEN col
    ELSE IF CellKinds(col) \cap {"badstr", "missing"} # {}
    THEN Column("float64", [i \in 1..Len(col.cells) |-> NumberOf(col.cells[i])])
    ELSE IF CellKinds(col) = {"bool"}
    THEN Column("bool", col.cells)
    ELSE Column("int64", [i \in 1..Len(col.cells) |-> NumberOf(col.cells[i])])

\* lines 34-38 for one column
CoerceColumn(col) ==
    ToNumeric(IF col.dtype = "bool" THEN BoolColumnToInt(col) ELSE col)

\* lines 31-38 from the j-th name of feature_cols on: a name that is no
\* column is passed over, and a name that occurs again is coerced again
RECURSIVE CoerceFrom(_, _, _)
CoerceFrom(out, feature_cols, j) ==
    IF j > Len(feature_cols) THEN out
    ELSE CoerceFrom(IF feature_cols[j] \in DOMAIN out
                    THEN [out EXCEPT ![feature_cols[j]] = CoerceColumn(@)]
                    ELSE out,
                    feature_cols, j + 1)

\* the frame _coerce_types builds
CoercedFrame(df, feature_cols) == CoerceFrom(df, feature_cols, 1)

\* faulty _coerce_types: out = df, the columns of the caller's frame are
\* replaced
CoerceTypes_InPlace(df, feature_cols) ==
    [df |-> CoercedFrame(df, feature_cols),
     out |-> CoercedFrame(df, feature_cols)]

\* _coerce_types(df, feature_cols): the caller's frame after the call and
\* the frame returned; out = df.copy() is a frame of its own
CoerceTypes(df, feature_cols) ==
    [df |-> df, out |-> CoercedFrame(df, feature_cols)]

(* Inputs *)

CoerceFeatureCols == <<"recency_days", "in_renewal_grace">>

\* cfg.feature_cols: the names, or a list that has a name twice
CoerceColLists ==
    {CoerceFeatureCols, <<"recency_days", "in_renewal_grace", "recency_days">>}

CellSeqs(cells, n) == [1..n -> cells]

\* the columns of n cells pandas can hold: the cells fit the dtype
Columns(n) ==
    { Column("bool", s) : s \in CellSeqs({CBool(TRUE), CBool(FALSE)}, n) }
    \cup { Column("int64", s) : s \in CellSeqs({CInt(0), CInt(1)}, n) }
    \cup { Column("float64", s) : s \in CellSeqs({CInt(0), CInt(1), CMissing}, n) }
    \cup { Column("object", s) :
             s \in CellSeqs({CBool(TRUE), CBool(FALSE), CInt(1), CNumStr(2),
                             CBadStr, CMissing}, n) }

\* the customer column: strings that are no numbers
CustomerColumn(n) == Column("object", [i \in 1..n |-> CBadStr])

\* a frame with a customer column and the feature columns given
CoerceFrame(n, c1, c2, both) ==
    IF both
    THEN [customer_id |-> CustomerColumn(n), recency_days |-> c1,
          in_renewal_grace |-> c2]
    ELSE [customer_id |-> CustomerColumn(n), recency_days |-> c1]

\* frames of 1..MaxCells rows with one or both of the feature columns
InitCoerce ==
    /\ file = Idle /\ clock = 0 /\ last = Idle /\ lastRun = Idle /\ calls = Idle
    /\ dd = Idle /\ br = Idle /\ tp = Idle /\ mn = Idle
    /\ \E n \in 1..MaxCells :
         \E c1 \in Columns(n), c2 \in Columns(n), both \in BOOLEAN,
            cols \in CoerceColLists :
           LET df == CoerceFrame(n, c1, c2, both) IN
           fn = [pc |-> "called", cols |-> cols, given |-> df, df |-> df,
                 out |-> df, again |-> df]

\* work = _coerce_types(df, cfg.feature_cols)
Coerce ==
    /\ fn.pc = "called"
    /\ LET r == CoerceTypes(fn.df, fn.cols)
       IN  fn' = [fn EXCEPT !.pc = "coerced", !.df = r.df, !.out = r.out]
    /\ UNCHANGED <<file, clock, last, lastRun, calls, dd, br, tp, mn>>

\* _coerce_types applied to its own output
CoerceAgain ==
    /\ fn.pc = "coerced"
    /\ LET r == CoerceTypes(fn.out, fn.cols)
       IN  fn' = [fn EXCEPT !.pc = "recoerced", !.out = r.df, !.again = r.out]
    /\ UNCHANGED <<file, clock, last, lastRun, calls, dd, br, tp, mn>>

NextCoerce == Coerce \/ CoerceAgain

SpecCoerce == InitCoerce /\ [][NextCoerce]_vars

\* the value of a cell: True is 1 and False is 0, a string is itself
ValueOf(c) == IF c.kind = "bool" THEN CInt(IF c.b THEN 1 ELSE 0) ELSE c

\* two frames have the same columns and, cell by cell, the same values
SameValues(f, g) ==
    /\ DOMAIN f = DOMAIN g
    /\ \A c \in DOMAIN f :
         /\ Len(f[c].cells) = Len(g[c].cells)
         /\ \A i \in 1..Len(f[c].cells) :
              ValueOf(f[c].cells[i]) = ValueOf(g[c].cells[i])

(* C26: feature coercion is idempotent and non-mutating: _coerce_types     *)
(* applied to its own output returns the same values, and the frame of the *)
(* caller is left as it was given.                                         *)
C26_CoerceIdempotentNoMutation ==
    /\ fn.pc \in {"coerced", "recoerced"} => fn.df = fn.given
    /\ fn.pc = "recoerced" => SameValues(fn.again, fn.out)

C26_Witness ==
    /\ fn.pc = "recoerced"
    /\ "in_renewal_grace" \in DOMAIN fn.given
    /\ fn.given["recency_days"] = Column("object", <<CNumStr(2), CBadStr>>)
    /\ fn.given["in_renewal_grace"] = Column("bool", <<CBool(TRUE), CBool(FALSE)>>)
    /\ fn.out["recency_days"] = Column("float64", <<CInt(2), CMissing>>)
    /\ fn.out["in_renewal_grace"] = Column("int64", <<CInt(1), CInt(0)>>)
    /\ fn.again = fn.out /\ fn.df = fn.given

----------------------------------------------------------------------------
(* main: src/pymlchurn/cli.py lines 125-260 and src/pyMLChurn.py lines     *)
(* 193-330.  mn holds the arguments, the place main is at, the calls it    *)
(* has made so far in their order, and how it ended.  The state file and   *)
(* the clock are those of the refresh gate; the configuration, the         *)
(* connectivity check, the query, train_and_predict and the export succeed *)
(* or raise.                                                               *)

\* the two entry points: the package's main raises what build_config, the
\* query and train_and_predict raise, the script's main logs it and returns
\* 2, 3 or 4
MainVariants == {"cli", "script"}

MainArgs ==
    [check : BOOLEAN, check_only : BOOLEAN, skip_sp : BOOLEAN,
     force_sp : BOOLEAN, sp_ttl_hours : 0..MaxTtl]

\* args.sp_name and args.sp_schema on the configured server and database
MainTarget ==
    Target(Str1("s"), Str3("d", "|", "d"), Str1("x"),
           Str3("p", "<U+00E9>", SmallSigma))

Logged(m, events) == [m EXCEPT !.log = @ \o events]

MainRaised(m, error) == [m EXCEPT !.pc = "raised", !.error = error]

MainReturned(m, code) == [m EXCEPT !.pc = "exited", !.exit = code]

\* the environment of the run: an ODBC driver for SQL Server is installed
\* or none is ("nodriver"), and under MSSQL_AUTH=sql the user name and the
\* password are set or are not ("nocreds")
MainEnvs == {"ok", "nodriver", "nocreds"}

\* what create_engine raises in the environment: RuntimeError of
\* pick_driver (db.py lines 15-28), ValueError of build_connection_string
\* (lines 44-45)
EnvError(env) ==
    IF env = "nodriver" THEN "RuntimeError"
    ELSE IF env = "nocreds" THEN "ValueError"
    ELSE "none"

\* the attempts of the executor in the environment: create_engine is
\* called inside the try of the retry loop, which catches pyodbc.Error and
\* SQLAlchemyError only, so its error ends the first attempt
EnvScenarios(env) ==
    IF env = "ok" THEN ExecScenarios(Retries)
    ELSE { [i \in 1..Retries |-> "other"] }

\* faulty main: the call of maybe_run_sp is wrapped in try/except: pass
AfterGate_Swallows(m, r) == [m EXCEPT !.pc = "query"]

\* maybe_run_sp is not inside a try: what it raises ends main
AfterGate(m, r) ==
    IF r.outcome = "raised"
    THEN MainRaised(m, IF r.error = "other" /\ m.env # "ok"
                       THEN EnvError(m.env) ELSE r.error)
    ELSE [m EXCEPT !.pc = "query"]

InitMain ==
    /\ file \in InitFiles
    /\ clock \in {0, MaxTime - MaxDur}
    /\ last = Idle /\ lastRun = Idle
    /\ calls = [p \in Procs |-> NoFlight]
    /\ dd = Idle /\ br = Idle /\ tp = Idle /\ fn = Idle
    /\ \E variant \in MainVariants, args \in MainArgs, env \in MainEnvs :
         mn = [pc |-> "config", variant |-> variant, args |-> args,
               env |-> env, log |-> <<>>, due |-> FALSE, exit |-> 0 - 1,
               error |-> "none"]

\* what cfg = build_config(args) does: Config.from_env() raises ValueError
\* on a missing or invalid setting
ConfigOutcomes == {"ok", "ValueError"}

\* cfg = build_config(args); the script catches its failure and returns 2,
\* then calls pick_driver outside any try (src/pyMLChurn.py line 203)
MainConfig ==
    /\ mn.pc = "config"
    /\ \E config \in ConfigOutcomes :
         mn' = IF config # "ok"
               THEN (IF mn.variant = "cli"
                     THEN MainRaised(Logged(mn, <<"config">>), config)
                     ELSE MainReturned(Logged(mn, <<"config">>), 2))
               ELSE IF mn.variant = "script" /\ mn.env = "nodriver"
               THEN MainRaised(Logged(mn, <<"config">>), EnvError(mn.env))
               ELSE [Logged(mn, <<"config">>) EXCEPT !.pc = "start"]
    /\ UNCHANGED <<file, clock, last, lastRun, calls, dd, br, tp, fn>>

\* the connectivity check of --check and --check-only: connectivity_info
\* is in no try; it calls pick_driver and then, in its retry loop,
\* create_engine
MainCheck ==
    /\ mn.pc = "start"
    /\ IF mn.args.check \/ mn.args.check_only
       THEN IF mn.env # "ok"
            THEN mn' = MainRaised(Logged(mn, <<"check">>), EnvError(mn.env))
            ELSE \E ok \in BOOLEAN :
                   mn' = IF ~ok
                         THEN MainRaised(Logged(mn, <<"check">>), "dberr")
                         ELSE IF mn.args.check_only
                         THEN MainReturned(Logged(mn, <<"check">>), 0)
                         ELSE [Logged(mn, <<"check">>) EXCEPT !.pc = "gate"]
       ELSE mn' = [mn EXCEPT !.pc = "gate"]
    /\ UNCHANGED <<file, clock, last, lastRun, calls, dd, br, tp, fn>>

\* the call of maybe_run_sp that main makes, or that another run of main
\* with the same arguments makes
MainFlight(d) ==
    [NoFlight EXCEPT
       !.pc = "executing", !.target = MainTarget,
       !.force = mn.args.force_sp, !.ttl = mn.args.sp_ttl_hours,
       !.start = clock,
       !.prior = Get(LoadState(file).map, KeyOf(MainTarget)),
       !.before = file, !.kind = d.kind]

MainDecision ==
    Decision(file, clock, MainTarget.cfg, MainTarget.sp_name,
             MainTarget.schema, mn.args.force_sp,
             Some(Policy(mn.args.sp_ttl_hours)))

\* if not args.skip_sp: res = maybe_run_sp(...); the call decides
MainGate ==
    /\ mn.pc = "gate"
    /\ IF mn.args.skip_sp
       THEN /\ mn' = [mn EXCEPT !.pc = "query"]
            /\ UNCHANGED calls
       ELSE LET d == MainDecision IN
            IF d.go
            THEN /\ mn' = [Logged(mn, <<"decide">>) EXCEPT
                             !.due = TRUE, !.pc = "refresh"]
                 /\ calls' = [calls EXCEPT ![1] = MainFlight(d)]
            ELSE /\ mn' = AfterGate(Logged(mn, IF d.r.outcome = "raised"
                                               THEN <<"gate_error">>
                                               ELSE <<"decide">>), d.r)
                 /\ UNCHANGED calls
    /\ UNCHANGED <<file, clock, last, lastRun, dd, br, tp, fn>>

\* the executor returns or raises; when it returns, mark_ran reads the
\* state file
MainRefresh ==
    /\ mn.pc = "refresh"
    /\ \E outs \in EnvScenarios(mn.env), dur \in 0..MaxDur :
         /\ clock + dur <= MaxTime
         /\ LET c == calls[1]
                r == RunAndMark(file, clock, KeyOf(c.target), outs, dur, c.kind)
                m == Logged(mn, IF r.exec = "ok" THEN <<"refresh_ok">>
                                ELSE <<"refresh_failed">>)
            IN
            /\ clock' = r.clock
            /\ IF r.outcome = "raised"
               THEN /\ mn' = AfterGate(m, r)
                    /\ file' = r.file
                    /\ calls' = [calls EXCEPT ![1] = NoFlight]
               ELSE /\ mn' = [m EXCEPT !.pc = "record"]
                    /\ calls' = [calls EXCEPT ![1] = [c EXCEPT !.pc = "saving",
                                                               !.r = r]]
                    /\ UNCHANGED file
    /\ UNCHANGED <<last, lastRun, dd, br, tp, fn>>

\* mark_ran saves the state: write_text opens the state file, which
\* truncates it
MainRecord ==
    /\ mn.pc = "record"
    /\ file' = Truncated
    /\ mn' = [mn EXCEPT !.pc = "write"]
    /\ calls' = [calls EXCEPT ![1] = [@ EXCEPT !.pc = "writing"]]
    /\ UNCHANGED <<clock, last, lastRun, dd, br, tp, fn>>

\* write_text writes the mapping where the file begins, over what the
\* other run may have written since, and maybe_run_sp returns
MainWritten ==
    /\ mn.pc = "write"
    /\ file' \in Written(file, calls[1].r.file)
    /\ mn' = AfterGate(mn, calls[1].r)
    /\ calls' = [calls EXCEPT ![1] = NoFlight]
    /\ UNCHANGED <<clock, last, lastRun, dd, br, tp, fn>>

\* another run of main with the same arguments, in the same environment
\* and on the same state file, reaches its call of maybe_run_sp
OtherGate ==
    /\ mn.pc # "config"
    /\ ~mn.args.skip_sp
    /\ calls[2].pc = "idle"
    /\ LET d == MainDecision IN
       calls' = [calls EXCEPT ![2] =
                   IF d.go THEN MainFlight(d)
                   ELSE [NoFlight EXCEPT !.pc = "done", !.r = d.r]]
    /\ UNCHANGED <<file, clock, last, lastRun, dd, br, tp, fn, mn>>

OtherRefresh ==
    /\ calls[2].pc = "executing"
    /\ \E outs \in EnvScenarios(mn.env), dur \in 0..MaxDur :
         /\ clock + dur <= MaxTime
         /\ LET c == calls[2]
                r == RunAndMark(file, clock, KeyOf(c.target), outs, dur, c.kind)
            IN
            /\ clock' = r.clock
            /\ IF r.outcome = "raised"
               THEN /\ file' = r.file
                    /\ calls' = [calls EXCEPT ![2] = [c EXCEPT !.pc = "done",
                                                               !.r = r]]
               ELSE /\ calls' = [calls EXCEPT ![2] = [c EXCEPT !.pc = "saving",
                                                               !.r = r]]
                    /\ UNCHANGED file
    /\ UNCHANGED <<last, lastRun, dd, br, tp, fn, mn>>

\* the other run saves its state: it truncates the state file
OtherRecord ==
    /\ calls[2].pc = "saving"
    /\ file' = Truncated
    /\ calls' = [calls EXCEPT ![2] = [@ EXCEPT !.pc = "writing"]]
    /\ UNCHANGED <<clock, last, lastRun, dd, br, tp, fn, mn>>

\* and writes its mapping where the file begins
OtherWritten ==
    /\ calls[2].pc = "writing"
    /\ file' \in Written(file, calls[2].r.file)
    /\ calls' = [calls EXCEPT ![2] = [@ EXCEPT !.pc = "done"]]
    /\ UNCHANGED <<clock, last, lastRun, dd, br, tp, fn, mn>>

\* df = query_dataframe(cfg, sql): what create_engine raises is not caught
\* by the retry loop (db.py lines 60-72); the script catches every
\* exception of the query and returns 3
MainQuery ==
    /\ mn.pc = "query"
    /\ IF mn.env # "ok"
       THEN mn' = IF mn.variant = "cli"
                  THEN MainRaised(Logged(mn, <<"query">>), EnvError(mn.env))
                  ELSE MainReturned(Logged(mn, <<"query">>), 3)
       ELSE \E ok \in BOOLEAN :
              mn' = IF ok
                    THEN [Logged(mn, <<"query">>) EXCEPT !.pc = "normalize"]
                    ELSE IF mn.variant = "cli"
                    THEN MainRaised(Logged(mn, <<"query">>), "dberr")
                    ELSE MainReturned(Logged(mn, <<"query">>), 3)
    /\ UNCHANGED <<file, clock, last, lastRun, calls, dd, br, tp, fn>>

\* the dates are normalised, the rows filtered and deduplicated
MainNormalize ==
    /\ mn.pc = "normalize"
    /\ mn' = [Logged(mn, <<"normalize">>) EXCEPT !.pc = "train"]
    /\ UNCHANGED <<file, clock, last, lastRun, calls, dd, br, tp, fn>>

\* pred_df = train_and_predict(df, ml_cfg)
MainTrain ==
    /\ mn.pc = "train"
    /\ \E ok \in BOOLEAN :
         mn' = IF ok THEN [Logged(mn, <<"fit">>) EXCEPT !.pc = "rule"]
               ELSE IF mn.variant = "cli"
               THEN MainRaised(Logged(mn, <<"fit">>), "other")
               ELSE MainReturned(Logged(mn, <<"fit">>), 4)
    /\ UNCHANGED <<file, clock, last, lastRun, calls, dd, br, tp, fn>>

\* the business rule, inside try/except: pass
MainRule ==
    /\ mn.pc = "rule"
    /\ mn' = [Logged(mn, <<"rule">>) EXCEPT !.pc = "export"]
    /\ UNCHANGED <<file, clock, last, lastRun, calls, dd, br, tp, fn>>

\* the columns are renamed and the result is written
MainExport ==
    /\ mn.pc = "export"
    /\ \E ok \in BOOLEAN :
         mn' = IF ok THEN MainReturned(Logged(mn, <<"export">>), 0)
               ELSE MainRaised(Logged(mn, <<"export">>), "other")
    /\ UNCHANGED <<file, clock, last, lastRun, calls, dd, br, tp, fn>>

NextMain ==
    \/ MainConfig
    \/ MainCheck
    \/ MainGate
    \/ MainRefresh
    \/ MainRecord
    \/ MainWritten
    \/ OtherGate
    \/ OtherRefresh
    \/ OtherRecord
    \/ OtherWritten
    \/ MainQuery
    \/ MainNormalize
    \/ MainTrain
    \/ MainRule
    \/ MainExport

SpecMain == InitMain /\ [][NextMain]_vars

\* main has made the call
Has(e) == \E i \in 1..Len(mn.log) : mn.log[i] = e

\* the place of the call in the order of the calls
Pos(e) == CHOOSE i \in 1..Len(mn.log) : mn.log[i] = e

Before(e1, e2) == Has(e1) /\ Has(e2) /\ Pos(e1) < Pos(e2)

(* C21: in every run of main that neither skips the gate (--skip-sp) nor   *)
(* exits at --check-only, the gate decision, and the refresh when one is   *)
(* due, complete before the record query is issued; the query, the model   *)
(* fit and the business rule follow in that order; no query is issued      *)
(* when the refresh execution fails.                                       *)
C21_GateThenQueryFitRule ==
    (mn.pc # "idle" /\ ~mn.args.skip_sp /\ ~mn.args.check_only) =>
      /\ Has("query") =>
           /\ Before("decide", "query")
           /\ mn.due => (Before("decide", "refresh_ok")
                           /\ Before("refresh_ok", "query"))
      /\ Has("refresh_failed") => ~Has("query")
      /\ Has("fit") => Before("query", "fit")
      /\ Has("rule") => Before("fit", "rule")
      /\ (mn.pc = "exited" /\ mn.exit = 0) => Has("rule")

C21_Witness ==
    /\ mn.pc = "exited" /\ mn.exit = 0
    /\ ~mn.args.force_sp /\ mn.due
    /\ mn.log = <<"config", "decide", "refresh_ok", "query", "normalize",
                  "fit", "rule", "export">>
====
